---- MODULE Spec2Model ----
(***************************************************************************)
(* Verification model of the synthesis orchestration engine of             *)
(* audio-crawler: the batch dispatcher (crawler/converter.py), the         *)
(* per-engine retry loops, the fallback chain and the text chunkers        *)
(* (crawler/tts_engines.py, text_to_mp3.py), and the audio phase of the    *)
(* pipeline with its mapping CSV (run.py).                                 *)
(*                                                                         *)
(* The specifications share the module, one per subsystem:                 *)
(*   SpecBatch    - TextToAudioConverter.convert_batch                     *)
(*   SpecBatchFair- the same, every step that stays possible is taken      *)
(*   SpecRetry    - one synthesis invocation of one engine on one chunk    *)
(*   SpecFallback - one FallbackTTS.speak invocation                       *)
(*   SpecJob      - successive runs of run.py main() on one story          *)
(*   SpecChunker  - one call of _split_text_into_chunks                    *)
(*   SpecMulti    - one speak invocation on a text of several chunks       *)
(*   SpecEntry    - one call of convert / convert_batch, dry-run or not    *)
(*   SpecFetch    - one call of ChapterFetcher.fetch_chapter               *)
(* Each keeps the variables of the others at their idle values.            *)
(***************************************************************************)
EXTENDS Integers, Sequences, FiniteSets, TLC

\* ---------------------------------------------------------------- bounds
NumTasks == 3
MaxConc == 2
MaxBatchRetries == 2

Tasks == 1..NumTasks

NumChapters == 2
MaxRuns == 2

Chapters == 1..NumChapters

VARIABLES
  \* ---- convert_batch
  legacy,        \* TRUE: self.tts_engine is None and backend == 'edge-tts'
  concurrency,   \* convert_batch(concurrency=...)
  retry_failed,  \* convert_batch(retry_failed=...)
  max_retries,   \* convert_batch(max_retries=...)
  phase,         \* "main" | "retry" | "done"
  sem,           \* value of the asyncio.Semaphore of the current pass
  wstate,        \* per task: worker coroutine of the current pass
  attempt,       \* per task: `attempt` of the legacy worker's retry loop
  mainRuns,      \* per task: times a main-pass worker entered `async with sem`
  sweepRuns,     \* per task: times a retry-sweep worker entered `async with sem`
  mainResult,    \* per task: entry of `results` ("none" while not finished)
  sweepResult,   \* per task: entry of `retry_results`
  result,        \* what convert_batch returned
  emptyText,     \* the tasks whose input file holds no text (text.strip() is empty)
  voice_arg,     \* the tasks carry a voice, and the engine has a `voice` and is no FallbackTTS
  engineVoice,   \* self.tts_engine.voice: 0 = as constructed, t = the voice of task t
  callVoice,     \* per task: the voice of its last Provider call, -1 = no call yet
  outPath,       \* per task: its output file, "missing" | "audio"
  \* ---- one synthesis invocation (engine.speak / text_to_speech) on one chunk
  rEngine,       \* which retry loop runs ("idle": none)
  rMaxRetries,   \* its max_retries argument
  script,        \* outcomes of the Provider's first calls, in call order
  tail,          \* outcome of every Provider call after the script
  rAttempt,      \* `attempt` of the invocation's retry loop
  rChunkAttempt, \* `chunk_attempt` of GoogleCloudTTS's per-chunk loop
  callLog,       \* outcome of every Provider call made, in order
  sleeps,        \* every back-off sleep made (seconds), in order
  rStatus,       \* "running" | "completed" (speak returned) | "failed" (raised)
  outFile,       \* the output artifact: "missing" | "empty" | "partial" | "audio"
  lastError,     \* `last_error`: index in callLog of the call it stems from, 0 = None
  rCarried,      \* call index of the cause carried by the propagated failure
  \* ---- one FallbackTTS.speak invocation
  fbPrimary,     \* self.primary_engine
  fbConfig,      \* self.fallback_engines as configured
  fallbacks,     \* self.fallbacks as built by __init__
  availNow,      \* is_available() of each engine during speak
  works,         \* whether the engine's speak returns (TRUE) or raises
  fbStage,       \* 0: before the primary; i: before self.fallbacks[i]; Len+1: after the loop
  attempts,      \* the speak calls made, in order: [role, pos, name]
  fbStatus,      \* "running" | "success" | "raised"
  fbLastError,   \* `last_error`: index in attempts of the failed call, 0 = None
  fbRaised,      \* the failures named by the raised error: indices in attempts
  \* ---- runs of the audio phase of run.py main() over one story
  jSequential,   \* backend is not one of the batch backends (convert one by one)
  jBatch,        \* batch_size of the story config
  jFiles,        \* per chapter: its audio file on disk
  jLedger,       \* per chapter: status of its row in the mapping CSV on disk
  jLast,         \* last_downloaded_chapter of the story config on disk
  jPc,           \* position of the running main(): "idle" when none runs
  jRun,          \* number of runs started
  jRecreate,     \* args.recreate_audio of the current run
  jTasks,        \* indices of audio_tasks of the current run
  jMap,          \* per chapter: status in all_mappings of the current run
  jLoaded,       \* per chapter: status the current run read from the mapping CSV
  jOutcome,      \* per chapter: how its synthesis ended in the current run
  jSucc,         \* successful_audio_indices of the current run
  jExit,         \* exit status of the last run: "0" | "1" | "killed" | "none"
  jGood,         \* content of the mapping CSV after its last finished write
  jFinal,        \* the current run finished its final write of the mapping CSV
  jDone,         \* chapters read as completed, audio file non-empty, at startup
  jDeleted,      \* rows removed from the mapping CSV by hand since the last run started
  jForced,       \* rows removed by hand before the current (or last) run started
  jDryRun,       \* the current (or last) run was started with --dry-run
  \* ---- one call of an engine's _split_text_into_chunks
  chText,        \* the text: its words, in order
  chMaxBytes,    \* max_bytes (GoogleCloudTTS) / max_size (EdgeTTS)
  chMaxSentence, \* max_sentence_length
  chChunker,     \* which chunker has run: "none" | "google" | "edge"; "raised": none, speak raised
  chChunks,      \* the chunks returned: length in characters and in bytes of each
  \* ---- one speak invocation on a text of several chunks
  mEngine,       \* the engine: "edge" | "google" | "azure" ("off": none)
  mNumChunks,    \* len(text_chunks)
  mMaxRetries,   \* max_retries
  ffmpeg,        \* the concatenation tool: "absent" | "fails" | "works"
  mPc,           \* "chunks" | "finally" | "end"
  mI,            \* the chunk being synthesised (mNumChunks + 1: all done)
  mAttempt,      \* `attempt` of the outer retry loop (GoogleCloudTTS, AzureTTS)
  mChunkAttempt, \* `chunk_attempt` of the per-chunk loop (EdgeTTS, GoogleCloudTTS)
  temp_files,    \* the chunk files registered for removal
  failed_chunks, \* EdgeTTS: the chunks given up
  partFile,      \* per chunk: its intermediate file, "missing" | "empty" | "audio"
  mOutput,       \* output_file: "missing" | "chunk" (one chunk's audio) | "joined"
  mWarned,       \* the "Only first chunk saved" warning was printed
  mStatus,       \* "running" | "success" | "raised"
  \* ---- one call of convert / convert_batch on a constructed converter
  dBackend,      \* self.backend
  dEngine,       \* self.tts_engine is not None
  dInstalled,    \* the backend's library (or command) is installed
  dDryRun,       \* self.dry_run
  dBlank,        \* the input file holds no text
  dCall,         \* the method called: "none" | "convert" | "convert_batch"
  dStatus,       \* "pending" | "returned" | "raised"
  dCalled,       \* a Provider call was made
  dOutput,       \* the output file: "missing" | "audio"
  \* ---- one call of ChapterFetcher.fetch_chapter
  fNumCands,     \* len(candidates)
  fMaxAttempts,  \* self.max_attempts
  fCand,         \* the candidate being tried (position in candidates)
  fAttempt,      \* `attempt`
  fWait,         \* `wait`, in units of self.backoff_seconds
  fRequests,     \* every session.get made, in order: [cand, resp]
  fSleeps,       \* every time.sleep made, in order: [cand, wait]
  fLastExc,      \* `last_exc`: index in fRequests of the request it stems from, 0 = None
  fStatus,       \* "running" | "returned" | "raised"
  fBody,         \* the request whose resp.text was returned (0: none)
  fRaised        \* the request whose error was raised (0: none)

batchVars == <<legacy, concurrency, retry_failed, max_retries, phase, sem, wstate,
               attempt, mainRuns, sweepRuns, mainResult, sweepResult, result,
               emptyText, voice_arg, engineVoice, callVoice, outPath>>

retryVars == <<rEngine, rMaxRetries, script, tail, rAttempt, rChunkAttempt, callLog,
               sleeps, rStatus, outFile, lastError, rCarried>>

fbVars == <<fbPrimary, fbConfig, fallbacks, availNow, works, fbStage, attempts,
            fbStatus, fbLastError, fbRaised>>

jobVars == <<jSequential, jBatch, jFiles, jLedger, jLast, jPc, jRun, jRecreate, jTasks,
             jMap, jLoaded, jOutcome, jSucc, jExit, jGood, jFinal, jDone,
             jDeleted, jForced, jDryRun>>

chunkVars == <<chText, chMaxBytes, chMaxSentence, chChunker, chChunks>>

multiVars == <<mEngine, mNumChunks, mMaxRetries, ffmpeg, mPc, mI, mAttempt,
               mChunkAttempt, temp_files, failed_chunks, partFile, mOutput,
               mWarned, mStatus>>

entryVars == <<dBackend, dEngine, dInstalled, dDryRun, dBlank, dCall, dStatus,
               dCalled, dOutput>>

fetchVars == <<fNumCands, fMaxAttempts, fCand, fAttempt, fWait, fRequests, fSleeps,
               fLastExc, fStatus, fBody, fRaised>>

vars == <<batchVars, retryVars, fbVars, jobVars, chunkVars, multiVars, entryVars,
          fetchVars>>

\* what the actions of one subsystem leave alone
othersOfBatch == <<retryVars, fbVars, jobVars, chunkVars, multiVars, entryVars,
                  fetchVars>>
othersOfRetry == <<batchVars, fbVars, jobVars, chunkVars, multiVars, entryVars,
                  fetchVars>>
othersOfFallback == <<batchVars, retryVars, jobVars, chunkVars, multiVars, entryVars,
                  fetchVars>>
othersOfJob == <<batchVars, retryVars, fbVars, chunkVars, multiVars, entryVars,
                  fetchVars>>
othersOfChunker == <<batchVars, retryVars, fbVars, jobVars, multiVars, entryVars,
                  fetchVars>>
othersOfMulti == <<batchVars, retryVars, fbVars, jobVars, chunkVars, entryVars,
                  fetchVars>>
othersOfEntry == <<batchVars, retryVars, fbVars, jobVars, chunkVars, multiVars,
                  fetchVars>>
othersOfFetch == <<batchVars, retryVars, fbVars, jobVars, chunkVars, multiVars,
                   entryVars>>

\* ----------------------------------------------------------- idle subsystems
BatchIdle ==
  /\ legacy = FALSE /\ concurrency = 1 /\ retry_failed = FALSE /\ max_retries = 1
  /\ phase = "idle" /\ sem = 0
  /\ wstate = [t \in Tasks |-> "idle"]
  /\ attempt = [t \in Tasks |-> 0]
  /\ mainRuns = [t \in Tasks |-> 0]
  /\ sweepRuns = [t \in Tasks |-> 0]
  /\ mainResult = [t \in Tasks |-> "none"]
  /\ sweepResult = [t \in Tasks |-> "none"]
  /\ result = [kind |-> "pending", failed |-> <<>>]
  /\ emptyText = {} /\ voice_arg = FALSE /\ engineVoice = 0
  /\ callVoice = [t \in Tasks |-> -1]
  /\ outPath = [t \in Tasks |-> "missing"]

RetryIdle ==
  /\ rEngine = "idle" /\ rMaxRetries = 1 /\ script = <<>> /\ tail = "ok"
  /\ rAttempt = 0 /\ rChunkAttempt = 0 /\ callLog = <<>> /\ sleeps = <<>>
  /\ rStatus = "idle" /\ outFile = "missing" /\ lastError = 0 /\ rCarried = 0

FallbackIdle ==
  /\ fbPrimary = "idle" /\ fbConfig = <<>> /\ fallbacks = <<>>
  /\ availNow = <<>> /\ works = <<>>
  /\ fbStage = 0 /\ attempts = <<>> /\ fbStatus = "idle"
  /\ fbLastError = 0 /\ fbRaised = <<>>

JobIdle ==
  /\ jSequential = FALSE /\ jBatch = 1
  /\ jFiles = [c \in Chapters |-> "missing"]
  /\ jLedger = [c \in Chapters |-> "absent"]
  /\ jLast = 0 /\ jPc = "off" /\ jRun = 0 /\ jRecreate = FALSE /\ jTasks = {}
  /\ jMap = [c \in Chapters |-> "absent"]
  /\ jLoaded = [c \in Chapters |-> "absent"]
  /\ jOutcome = [c \in Chapters |-> "none"]
  /\ jSucc = {} /\ jExit = "none"
  /\ jGood = [c \in Chapters |-> "absent"]
  /\ jFinal = FALSE /\ jDone = {}
  /\ jDeleted = {} /\ jForced = {} /\ jDryRun = FALSE

ChunkerIdle ==
  /\ chText = <<>> /\ chMaxBytes = 0 /\ chMaxSentence = 0
  /\ chChunker = "off" /\ chChunks = <<>>

MultiIdle ==
  /\ mEngine = "off" /\ mNumChunks = 0 /\ mMaxRetries = 1 /\ ffmpeg = "absent"
  /\ mPc = "off" /\ mI = 0 /\ mAttempt = 0 /\ mChunkAttempt = 0
  /\ temp_files = {} /\ failed_chunks = {} /\ partFile = <<>>
  /\ mOutput = "missing" /\ mWarned = FALSE /\ mStatus = "off"

FetchIdle ==
  /\ fNumCands = 0 /\ fMaxAttempts = 1 /\ fCand = 0 /\ fAttempt = 0 /\ fWait = 0
  /\ fRequests = <<>> /\ fSleeps = <<>> /\ fLastExc = 0 /\ fStatus = "off"
  /\ fBody = 0 /\ fRaised = 0

EntryIdle ==
  /\ dBackend = "off" /\ dEngine = FALSE /\ dInstalled = FALSE /\ dDryRun = FALSE
  /\ dBlank = FALSE /\ dCall = "none" /\ dStatus = "off" /\ dCalled = FALSE
  /\ dOutput = "missing"

\* ------------------------------------------------------------ convert_batch

\* the tasks whose gather() result is an Exception, in task_list order
FailedSeq(res) ==
  SelectSeq([i \in 1..NumTasks |-> i], LAMBDA t : res[t] = "failed")

SeqToSet(s) == {s[i] : i \in 1..Len(s)}

InFlight == {t \in Tasks : wstate[t] = "running"}

\* the task lists tried: no input file is blank, or the first one is
EmptyTextSets == {{}, {1}}

InitBatch ==
  /\ legacy \in BOOLEAN
  /\ concurrency \in 1..MaxConc
  /\ retry_failed \in BOOLEAN
  /\ max_retries \in 1..MaxBatchRetries
  /\ phase = "main"
  /\ sem = concurrency
  /\ wstate = [t \in Tasks |-> "waiting"]
  /\ attempt = [t \in Tasks |-> 0]
  /\ mainRuns = [t \in Tasks |-> 0]
  /\ sweepRuns = [t \in Tasks |-> 0]
  /\ mainResult = [t \in Tasks |-> "none"]
  /\ sweepResult = [t \in Tasks |-> "none"]
  /\ result = [kind |-> "pending", failed |-> <<>>]
  /\ emptyText \in EmptyTextSets
  /\ voice_arg \in BOOLEAN
  /\ engineVoice = 0
  /\ callVoice = [t \in Tasks |-> -1]
  /\ outPath = [t \in Tasks |-> "missing"]
  /\ RetryIdle
  /\ FallbackIdle
  /\ JobIdle
  /\ ChunkerIdle
  /\ MultiIdle
  /\ EntryIdle
  /\ FetchIdle

\* `async with sem:` entered by the worker of task t, which reads its input
\* file and, on the engine path, sets engine.voice when a voice is given
WorkerEnter_Unbounded(t) ==
  /\ phase \in {"main", "retry"}
  /\ wstate[t] = "waiting"
  /\ sem' = sem - 1
  /\ wstate' = [wstate EXCEPT ![t] = "running"]
  /\ attempt' = [attempt EXCEPT ![t] = 0]
  /\ IF phase = "main"
       THEN mainRuns' = [mainRuns EXCEPT ![t] = @ + 1] /\ UNCHANGED sweepRuns
       ELSE sweepRuns' = [sweepRuns EXCEPT ![t] = @ + 1] /\ UNCHANGED mainRuns
  /\ engineVoice' = IF ~legacy /\ voice_arg THEN t ELSE engineVoice
  /\ callVoice' = [callVoice EXCEPT ![t] =
                     IF ~legacy /\ t \in emptyText THEN @
                     ELSE IF voice_arg THEN t ELSE engineVoice]
  /\ UNCHANGED <<legacy, concurrency, retry_failed, max_retries, phase,
                 mainResult, sweepResult, result, emptyText, voice_arg, outPath>>
  /\ UNCHANGED othersOfBatch

WorkerEnter(t) ==
  /\ sem > 0
  /\ WorkerEnter_Unbounded(t)

\* the worker coroutine of t ends and keeps its permit
WorkerLeaves_NoRelease(t, outcome) ==
  /\ wstate' = [wstate EXCEPT ![t] = outcome]
  /\ sem' = sem
  /\ IF phase = "main"
       THEN mainResult' = [mainResult EXCEPT ![t] = outcome] /\ UNCHANGED sweepResult
       ELSE sweepResult' = [sweepResult EXCEPT ![t] = outcome] /\ UNCHANGED mainResult

\* the worker coroutine of t ends (return or raise); `async with` releases sem
WorkerLeaves(t, outcome) ==
  /\ wstate' = [wstate EXCEPT ![t] = outcome]
  /\ sem' = sem + 1
  /\ IF phase = "main"
       THEN mainResult' = [mainResult EXCEPT ![t] = outcome] /\ UNCHANGED sweepResult
       ELSE sweepResult' = [sweepResult EXCEPT ![t] = outcome] /\ UNCHANGED mainResult

\* engine path: `await engine.speak(...)` returns; a blank text makes every
\* engine's speak raise "Input text is empty"
EngineSpeakReturns(t) ==
  /\ ~legacy
  /\ wstate[t] = "running"
  /\ t \notin emptyText
  /\ WorkerLeaves(t, "ok")
  /\ outPath' = [outPath EXCEPT ![t] = "audio"]
  /\ UNCHANGED <<legacy, concurrency, retry_failed, max_retries, phase, attempt,
                 mainRuns, sweepRuns, result, emptyText, voice_arg, engineVoice, callVoice>>
  /\ UNCHANGED othersOfBatch

\* engine path, inside `await engine.speak(...)` of an engine that reads
\* self.voice for each request (EdgeTTS): after an await, the next chunk
\* or the next retry builds its Communicate with the voice the engine holds
EngineNextCall(t) ==
  /\ ~legacy
  /\ wstate[t] = "running"
  /\ t \notin emptyText
  /\ callVoice' = [callVoice EXCEPT ![t] = engineVoice]
  /\ UNCHANGED <<legacy, concurrency, retry_failed, max_retries, phase, sem, wstate,
                 attempt, mainRuns, sweepRuns, mainResult, sweepResult, result,
                 emptyText, voice_arg, engineVoice, outPath>>
  /\ UNCHANGED othersOfBatch

\* engine path: `await engine.speak(...)` raises
EngineSpeakRaises(t) ==
  /\ ~legacy
  /\ wstate[t] = "running"
  /\ WorkerLeaves(t, "failed")
  /\ UNCHANGED <<legacy, concurrency, retry_failed, max_retries, phase, attempt,
                 mainRuns, sweepRuns, result, emptyText, voice_arg, engineVoice, callVoice,
                 outPath>>
  /\ UNCHANGED othersOfBatch

\* legacy path: comm.save() wrote a non-empty file, the worker returns; a
\* blank text yields no audio
LegacyAttemptSucceeds(t) ==
  /\ legacy
  /\ wstate[t] = "running"
  /\ t \notin emptyText
  /\ WorkerLeaves(t, "ok")
  /\ outPath' = [outPath EXCEPT ![t] = "audio"]
  /\ UNCHANGED <<legacy, concurrency, retry_failed, max_retries, phase, attempt,
                 mainRuns, sweepRuns, result, emptyText, voice_arg, engineVoice, callVoice>>
  /\ UNCHANGED othersOfBatch

\* legacy path: the attempt raised (or left no file); sleep and loop, or raise
LegacyAttemptFails(t) ==
  /\ legacy
  /\ wstate[t] = "running"
  /\ IF attempt[t] < max_retries - 1
       THEN /\ attempt' = [attempt EXCEPT ![t] = @ + 1]
            /\ UNCHANGED <<sem, wstate, mainResult, sweepResult>>
       ELSE /\ WorkerLeaves(t, "failed")
            /\ UNCHANGED attempt
  /\ UNCHANGED <<legacy, concurrency, retry_failed, max_retries, phase,
                 mainRuns, sweepRuns, result, emptyText, voice_arg, engineVoice, callVoice,
                 outPath>>
  /\ UNCHANGED othersOfBatch

\* asyncio.gather(*tasks_async, return_exceptions=True) has every result
GatherReady_FirstException ==
  \/ \A t \in Tasks : wstate[t] \in {"ok", "failed", "idle"}
  \/ \E t \in Tasks : wstate[t] = "failed"

GatherReady ==
  \A t \in Tasks : wstate[t] \in {"ok", "failed", "idle"}

\* convert_batch returns without awaiting the workers
MainPassReturns_NoWait ==
  /\ phase = "main"
  /\ legacy \/ ~retry_failed \/ FailedSeq(mainResult) = <<>>
  /\ phase' = "done"
  /\ result' = IF legacy THEN [kind |-> "None", failed |-> <<>>]
                         ELSE [kind |-> "list", failed |-> FailedSeq(mainResult)]
  /\ UNCHANGED <<legacy, concurrency, retry_failed, max_retries, sem, wstate,
                 attempt, mainRuns, sweepRuns, mainResult, sweepResult,
                 emptyText, voice_arg, engineVoice, callVoice, outPath>>
  /\ UNCHANGED othersOfBatch

\* _run_all returns and no sweep follows: convert_batch returns
MainPassReturns ==
  /\ phase = "main"
  /\ GatherReady
  /\ legacy \/ ~retry_failed \/ FailedSeq(mainResult) = <<>>
  /\ phase' = "done"
  /\ result' = IF legacy THEN [kind |-> "None", failed |-> <<>>]
                         ELSE [kind |-> "list", failed |-> FailedSeq(mainResult)]
  /\ UNCHANGED <<legacy, concurrency, retry_failed, max_retries, sem, wstate,
                 attempt, mainRuns, sweepRuns, mainResult, sweepResult,
                 emptyText, voice_arg, engineVoice, callVoice, outPath>>
  /\ UNCHANGED othersOfBatch

\* the tasks the sweep re-queues
SweepTasks(res) == SeqToSet(FailedSeq(res))

\* _run_with_retry: `if retry_failed and failed_tasks:` creates the sweep workers
StartRetrySweep ==
  /\ phase = "main"
  /\ GatherReady
  /\ ~legacy /\ retry_failed /\ FailedSeq(mainResult) # <<>>
  /\ phase' = "retry"
  /\ sem' = concurrency
  /\ wstate' = [t \in Tasks |->
                  IF t \in SweepTasks(mainResult) THEN "waiting" ELSE "idle"]
  /\ UNCHANGED <<legacy, concurrency, retry_failed, max_retries, attempt,
                 mainRuns, sweepRuns, mainResult, sweepResult, result,
                 emptyText, voice_arg, engineVoice, callVoice, outPath>>
  /\ UNCHANGED othersOfBatch

\* the sweep's gather() has every result: `return still_failed`
RetrySweepReturns ==
  /\ phase = "retry"
  /\ GatherReady
  /\ phase' = "done"
  /\ result' = [kind |-> "list", failed |-> FailedSeq(sweepResult)]
  /\ UNCHANGED <<legacy, concurrency, retry_failed, max_retries, sem, wstate,
                 attempt, mainRuns, sweepRuns, mainResult, sweepResult,
                 emptyText, voice_arg, engineVoice, callVoice, outPath>>
  /\ UNCHANGED othersOfBatch

NextBatch ==
  \/ \E t \in Tasks : WorkerEnter(t)
  \/ \E t \in Tasks : EngineNextCall(t)
  \/ \E t \in Tasks : EngineSpeakReturns(t)
  \/ \E t \in Tasks : EngineSpeakRaises(t)
  \/ \E t \in Tasks : LegacyAttemptSucceeds(t)
  \/ \E t \in Tasks : LegacyAttemptFails(t)
  \/ MainPassReturns
  \/ StartRetrySweep
  \/ RetrySweepReturns

SpecBatch == InitBatch /\ [][NextBatch]_vars

\* every Provider call and every back-off sleep returns, and the event loop
\* runs every coroutine that can run: a step that stays possible is taken
SpecBatchFair == InitBatch /\ [][NextBatch]_vars /\ WF_vars(NextBatch)

\* ------------------------------------------------- retry / back-off loops
MaxRetries == 3
MaxScript == 2

\* retry_delay each loop is run with (seconds)
EdgeRetryDelay == 2
GoogleRetryDelay == 1
AzureRetryDelay == 1

\* what one Provider call can do: return with audio ("ok"), return without
\* error but leave the output missing or empty ("empty"), raise a
\* rate-limit/transient error ("transient"), raise any other error ("fatal")
Outcomes == {"ok", "empty", "transient", "fatal"}
Errors == {"transient", "fatal"}

RetryEngines == {"edge", "google", "azure", "gtts", "text_to_mp3"}

Scripts == UNION {[1..n -> Outcomes] : n \in 0..MaxScript}

\* the Provider's answer to its n-th call
Outcome(n) == IF n <= Len(script) THEN script[n] ELSE tail

\* `wait_time = retry_delay * (2 ** attempt)`
WaitTime_DoubledOnce(retry_delay, a) == retry_delay * 2^(a + 1)

WaitTime(retry_delay, a) == retry_delay * 2^a

\* output file after a Provider call that streamed to it and raised
FileAfterError == {outFile, "empty", "partial"}

\* output file after a Provider call that returned without producing audio
FileAfterEmpty == IF outFile = "missing" THEN {"missing", "empty"} ELSE {"empty"}

InitRetry ==
  /\ rEngine \in RetryEngines
  /\ rMaxRetries \in 1..MaxRetries
  /\ script \in Scripts
  /\ tail \in Outcomes
  /\ rAttempt = IF rEngine = "text_to_mp3" THEN 1 ELSE 0
  /\ rChunkAttempt = 0
  /\ callLog = <<>>
  /\ sleeps = <<>>
  /\ rStatus = "running"
  /\ outFile = "missing"
  /\ lastError = 0
  /\ rCarried = 0
  /\ BatchIdle
  /\ FallbackIdle
  /\ JobIdle
  /\ ChunkerIdle
  /\ MultiIdle
  /\ EntryIdle
  /\ FetchIdle

\* EdgeTTS.speak, single chunk: one pass of `for attempt in range(max_retries)`
EdgeSpeak ==
  /\ rEngine = "edge" /\ rStatus = "running"
  /\ LET n == Len(callLog) + 1
         o == Outcome(n)
     IN /\ callLog' = Append(callLog, o)
        /\ IF o = "ok"
             THEN \* os.path.exists(output_file) and getsize > 0: return
                  /\ outFile' = "audio"
                  /\ rStatus' = "completed"
                  /\ UNCHANGED <<rAttempt, sleeps, lastError, rCarried>>
             ELSE \* save() raised, or "Audio file was not created or is empty"
                  /\ outFile' \in (IF o = "empty" THEN FileAfterEmpty ELSE FileAfterError)
                  /\ lastError' = n
                  /\ IF rAttempt < rMaxRetries - 1
                       THEN /\ sleeps' = Append(sleeps, WaitTime(EdgeRetryDelay, rAttempt))
                            /\ rAttempt' = rAttempt + 1
                            /\ UNCHANGED <<rStatus, rCarried>>
                       ELSE /\ rStatus' = "failed"
                            /\ rCarried' = n
                            /\ UNCHANGED <<rAttempt, sleeps>>
  /\ UNCHANGED <<rEngine, rMaxRetries, script, tail, rChunkAttempt>>
  /\ UNCHANGED othersOfRetry

\* GoogleCloudTTS.speak, one chunk: one pass of `for chunk_attempt in
\* range(chunk_retries)` inside _synthesize_all, with the handler of the
\* enclosing `for attempt in range(max_retries)` when the chunk loop gives up
GoogleSpeak ==
  /\ rEngine = "google" /\ rStatus = "running"
  /\ LET n == Len(callLog) + 1
         o == Outcome(n)
     IN /\ callLog' = Append(callLog, o)
        /\ IF o \in {"ok", "empty"}
             THEN \* audio_chunks.append(response.audio_content); break; write; return
                  /\ outFile' = IF o = "ok" THEN "audio" ELSE "empty"
                  /\ rStatus' = "completed"
                  /\ UNCHANGED <<rAttempt, rChunkAttempt, sleeps, lastError, rCarried>>
             ELSE /\ UNCHANGED outFile
                  /\ lastError' = n
                  /\ IF rChunkAttempt < rMaxRetries - 1
                       THEN \* time.sleep(wait_time) in the chunk loop
                            /\ sleeps' = Append(sleeps, WaitTime(GoogleRetryDelay, rChunkAttempt))
                            /\ rChunkAttempt' = rChunkAttempt + 1
                            /\ UNCHANGED <<rAttempt, rStatus, rCarried>>
                       ELSE \* "Failed to synthesize chunk" reaches the outer handler
                            IF rAttempt < rMaxRetries - 1
                              THEN /\ sleeps' = Append(sleeps, WaitTime(GoogleRetryDelay, rAttempt))
                                   /\ rAttempt' = rAttempt + 1
                                   /\ rChunkAttempt' = 0
                                   /\ UNCHANGED <<rStatus, rCarried>>
                              ELSE /\ rStatus' = "failed"
                                   /\ rCarried' = n
                                   /\ UNCHANGED <<rAttempt, rChunkAttempt, sleeps>>
  /\ UNCHANGED <<rEngine, rMaxRetries, script, tail>>
  /\ UNCHANGED othersOfRetry

\* AzureTTS.speak, one chunk: one pass of `for attempt in range(max_retries)`
AzureSpeak ==
  /\ rEngine = "azure" /\ rStatus = "running"
  /\ LET n == Len(callLog) + 1
         o == Outcome(n)
     IN /\ callLog' = Append(callLog, o)
        /\ IF o = "ok"
             THEN /\ outFile' = "audio"
                  /\ rStatus' = "completed"
                  /\ UNCHANGED <<rAttempt, sleeps, lastError, rCarried>>
             ELSE \* _synthesize raised, or "Audio file was not created or is empty"
                  /\ outFile' \in (IF o = "empty" THEN FileAfterEmpty ELSE FileAfterError)
                  /\ lastError' = n
                  /\ IF rAttempt < rMaxRetries - 1
                       THEN /\ sleeps' = Append(sleeps, WaitTime(AzureRetryDelay, rAttempt))
                            /\ rAttempt' = rAttempt + 1
                            /\ UNCHANGED <<rStatus, rCarried>>
                       ELSE /\ rStatus' = "failed"
                            /\ rCarried' = n
                            /\ UNCHANGED <<rAttempt, sleeps>>
  /\ UNCHANGED <<rEngine, rMaxRetries, script, tail, rChunkAttempt>>
  /\ UNCHANGED othersOfRetry

\* GTTS.speak: one call of tts.save(), no retry loop, no check of the file
GttsSpeak ==
  /\ rEngine = "gtts" /\ rStatus = "running"
  /\ LET n == Len(callLog) + 1
         o == Outcome(n)
     IN /\ callLog' = Append(callLog, o)
        /\ IF o \in {"ok", "empty"}
             THEN /\ outFile' \in (IF o = "ok" THEN {"audio"} ELSE FileAfterEmpty)
                  /\ rStatus' = "completed"
                  /\ UNCHANGED <<lastError, rCarried>>
             ELSE /\ outFile' \in FileAfterError
                  /\ lastError' = n
                  /\ rStatus' = "failed"
                  /\ rCarried' = n
  /\ UNCHANGED <<rEngine, rMaxRetries, script, tail, rAttempt, rChunkAttempt, sleeps>>
  /\ UNCHANGED othersOfRetry

\* text_to_mp3.text_to_speech: one pass of `for attempt in range(1, max_retries + 1)`
TextToSpeech ==
  /\ rEngine = "text_to_mp3" /\ rStatus = "running"
  /\ LET n == Len(callLog) + 1
         o == Outcome(n)
         last == rAttempt >= rMaxRetries
     IN /\ callLog' = Append(callLog, o)
        /\ CASE o = "ok" ->
                  /\ outFile' = "audio"
                  /\ rStatus' = "completed"
                  /\ UNCHANGED <<rAttempt, sleeps, lastError, rCarried>>
             [] o = "empty" ->
                  \* empty file removed, or never created; next pass without sleep
                  /\ outFile' = "missing"
                  /\ UNCHANGED <<sleeps, lastError>>
                  /\ IF last
                       THEN rStatus' = "failed" /\ rCarried' = lastError /\ UNCHANGED rAttempt
                       ELSE rAttempt' = rAttempt + 1 /\ UNCHANGED <<rStatus, rCarried>>
             [] o = "transient" ->
                  \* TimeoutError, "no audio was received", "connection"
                  /\ outFile' \in FileAfterError
                  /\ lastError' = n
                  /\ IF last
                       THEN rStatus' = "failed" /\ rCarried' = n /\ UNCHANGED <<rAttempt, sleeps>>
                       ELSE /\ sleeps' = Append(sleeps, 2^rAttempt)
                            /\ rAttempt' = rAttempt + 1
                            /\ UNCHANGED <<rStatus, rCarried>>
             [] o = "fatal" ->
                  \* "Non-retryable error": sys.exit(1)
                  /\ outFile' \in FileAfterError
                  /\ lastError' = n
                  /\ rStatus' = "failed"
                  /\ rCarried' = n
                  /\ UNCHANGED <<rAttempt, sleeps>>
  /\ UNCHANGED <<rEngine, rMaxRetries, script, tail, rChunkAttempt>>
  /\ UNCHANGED othersOfRetry

NextRetry ==
  \/ EdgeSpeak
  \/ GoogleSpeak
  \/ AzureSpeak
  \/ GttsSpeak
  \/ TextToSpeech

SpecRetry == InitRetry /\ [][NextRetry]_vars

\* ------------------------------------------------------------ FallbackTTS
MaxAlternates == 2

\* engine names of TTSManager.ENGINE_CLASSES the chain is built from
FbNames == {"edge-tts", "macos", "gtts"}

\* `fallback_engines or ['macos', 'gtts']`
DefaultFallbackEngines == <<"macos", "gtts">>

FbConfigs == UNION {[1..n -> FbNames] : n \in 0..MaxAlternates}

\* FallbackTTS.__init__: the engines of fallback_engines, in order, that were
\* created without error and whose is_available() was true at that moment
FallbackInit(cfg, ok) == SelectSeq(cfg, LAMBDA n : ok[n])

InitFallback ==
  /\ fbPrimary \in FbNames
  /\ fbConfig \in FbConfigs \cup {DefaultFallbackEngines}
  /\ \E ok \in [FbNames -> BOOLEAN] : fallbacks = FallbackInit(fbConfig, ok)
  /\ availNow \in [FbNames -> BOOLEAN]
  /\ works \in [FbNames -> BOOLEAN]
  /\ fbStage = 0
  /\ attempts = <<>>
  /\ fbStatus = "running"
  /\ fbLastError = 0
  /\ fbRaised = <<>>
  /\ BatchIdle
  /\ RetryIdle
  /\ JobIdle
  /\ ChunkerIdle
  /\ MultiIdle
  /\ EntryIdle
  /\ FetchIdle

\* one `await engine.speak(text, output_file)` inside try/except
FbTry_KeepFirstError(role, pos, name) ==
  /\ attempts' = Append(attempts, [role |-> role, pos |-> pos, name |-> name])
  /\ IF works[name]
       THEN fbStatus' = "success" /\ UNCHANGED <<fbStage, fbLastError>>
       ELSE /\ fbLastError' = IF fbLastError = 0 THEN Len(attempts) + 1 ELSE fbLastError
            /\ fbStage' = fbStage + 1
            /\ UNCHANGED fbStatus

FbTry(role, pos, name) ==
  /\ attempts' = Append(attempts, [role |-> role, pos |-> pos, name |-> name])
  /\ IF works[name]
       THEN fbStatus' = "success" /\ UNCHANGED <<fbStage, fbLastError>>
       ELSE /\ fbLastError' = Len(attempts) + 1
            /\ fbStage' = fbStage + 1
            /\ UNCHANGED fbStatus

\* FallbackTTS.speak: `if self.primary.is_available(): try: ... except: ...`
FallbackSpeakPrimary ==
  /\ fbStatus = "running" /\ fbStage = 0
  /\ IF availNow[fbPrimary]
       THEN FbTry("primary", 0, fbPrimary)
       ELSE fbStage' = 1 /\ UNCHANGED <<attempts, fbStatus, fbLastError>>
  /\ UNCHANGED <<fbPrimary, fbConfig, fallbacks, availNow, works, fbRaised>>
  /\ UNCHANGED othersOfFallback

\* FallbackTTS.speak: one pass of `for fallback in self.fallbacks:`
FallbackSpeakAlternate_NoAvailCheck ==
  /\ fbStatus = "running" /\ fbStage \in 1..Len(fallbacks)
  /\ FbTry("fallback", fbStage, fallbacks[fbStage])
  /\ UNCHANGED <<fbPrimary, fbConfig, fallbacks, availNow, works, fbRaised>>
  /\ UNCHANGED othersOfFallback

FallbackSpeakAlternate ==
  /\ fbStatus = "running" /\ fbStage \in 1..Len(fallbacks)
  /\ IF availNow[fallbacks[fbStage]]
       THEN FbTry("fallback", fbStage, fallbacks[fbStage])
       ELSE fbStage' = fbStage + 1 /\ UNCHANGED <<attempts, fbStatus, fbLastError>>
  /\ UNCHANGED <<fbPrimary, fbConfig, fallbacks, availNow, works, fbRaised>>
  /\ UNCHANGED othersOfFallback

\* FallbackTTS.speak: `raise RuntimeError(f"All TTS engines failed. Last error: {last_error}")`
FallbackSpeakRaises ==
  /\ fbStatus = "running" /\ fbStage = Len(fallbacks) + 1
  /\ fbStatus' = "raised"
  /\ fbRaised' = IF fbLastError = 0 THEN <<>> ELSE <<fbLastError>>
  /\ UNCHANGED <<fbPrimary, fbConfig, fallbacks, availNow, works, fbStage,
                 attempts, fbLastError>>
  /\ UNCHANGED othersOfFallback

NextFallback ==
  \/ FallbackSpeakPrimary
  \/ FallbackSpeakAlternate
  \/ FallbackSpeakRaises

SpecFallback == InitFallback /\ [][NextFallback]_vars

\* ================================================= run.py: the audio phase
\* One story, chapters 1..NumChapters, each with its text file on disk.  A run
\* is one execution of main(); runs follow each other on the same disk.

Statuses == {"queued", "completed", "failed"}
FileStates == {"missing", "partial", "audio"}   \* "missing": absent or 0 bytes

\* os.path.exists(audio_path) and os.path.getsize(audio_path) > 0
NonEmpty(f) == f \in {"partial", "audio"}

\* start_audio_idx .. end_audio_idx
Window(last, batch_size) == {c \in Chapters : last + 1 <= c /\ c <= last + batch_size}

\* audio_tasks: every chapter of the window, whatever its audio file
AudioTasks_All(files, last, batch_size, recreate) ==
  Window(last, batch_size)

\* audio_tasks: the chapters of the window without a non-empty audio file,
\* every chapter of the window under --recreate-audio
AudioTasks(files, last, batch_size, recreate) ==
  {c \in Window(last, batch_size) : ~NonEmpty(files[c]) \/ recreate}

\* all_mappings with the status of every chapter that is not an audio task
\* derived from its audio file
MergeLedger_FromFiles(ledger, files, last, batch_size, tasks) ==
  [c \in Chapters |->
     IF c \in tasks THEN "queued"
     ELSE IF ledger[c] # "absent" \/ c \in Window(last, batch_size)
          THEN (IF NonEmpty(files[c]) THEN "completed" ELSE "queued")
          ELSE "absent"]

\* all_mappings as built before the first write: rows of the CSV carried
\* over with their stored status, new rows for the chapters of the window,
\* then 'queued' for every audio task
MergeLedger(ledger, files, last, batch_size, tasks) ==
  [c \in Chapters |->
     IF c \in tasks THEN "queued"
     ELSE IF ledger[c] # "absent" THEN ledger[c]
     ELSE IF c \in Window(last, batch_size)
          THEN (IF NonEmpty(files[c]) THEN "completed" ELSE "queued")
          ELSE "absent"]

\* batch backends: status of every audio task from the file left on disk
CheckFiles(map, files, tasks) ==
  [c \in Chapters |->
     IF c \in tasks THEN (IF NonEmpty(files[c]) THEN "completed" ELSE "failed")
     ELSE map[c]]

MaxOf(S) == CHOOSE m \in S : \A x \in S : x <= m

InitJob ==
  /\ jSequential \in BOOLEAN
  /\ jBatch \in 1..NumChapters
  /\ jFiles = [c \in Chapters |-> "missing"]
  /\ jLedger = [c \in Chapters |-> "absent"]
  /\ jLast = 0 /\ jPc = "idle" /\ jRun = 0 /\ jRecreate = FALSE /\ jTasks = {}
  /\ jMap = [c \in Chapters |-> "absent"]
  /\ jLoaded = [c \in Chapters |-> "absent"]
  /\ jOutcome = [c \in Chapters |-> "none"]
  /\ jSucc = {} /\ jExit = "none"
  /\ jGood = [c \in Chapters |-> "absent"]
  /\ jFinal = FALSE /\ jDone = {}
  /\ jDeleted = {} /\ jForced = {} /\ jDryRun = FALSE
  /\ BatchIdle
  /\ RetryIdle
  /\ FallbackIdle
  /\ ChunkerIdle
  /\ MultiIdle
  /\ EntryIdle
  /\ FetchIdle

\* main() up to the first open() of the mapping CSV
PlanRun(recreate, dry_run) ==
  /\ jPc = "idle"
  /\ jRun < MaxRuns
  /\ jRun' = jRun + 1
  /\ jRecreate' = recreate
  /\ jDryRun' = dry_run
  /\ LET tasks == AudioTasks(jFiles, jLast, jBatch, recreate) IN
       IF tasks = {}
       THEN \* "Nothing to do.": return 0
            /\ jExit' = "0"
            /\ jTasks' = {}
            /\ jSucc' = {}
            /\ jFinal' = FALSE
            /\ UNCHANGED <<jPc, jMap, jLoaded, jDone, jOutcome>>
       ELSE /\ jTasks' = tasks
            /\ jLoaded' = jLedger
            /\ jDone' = {c \in Chapters : jLedger[c] = "completed" /\ NonEmpty(jFiles[c])}
            /\ jMap' = MergeLedger(jLedger, jFiles, jLast, jBatch, tasks)
            /\ jOutcome' = [c \in Chapters |-> "none"]
            /\ jSucc' = {}
            /\ jFinal' = FALSE
            /\ jExit' = "none"
            /\ jPc' = "open1"
  /\ UNCHANGED <<jSequential, jBatch, jFiles, jLedger, jLast, jGood>>
  /\ jForced' = jDeleted
  /\ jDeleted' = {}
  /\ UNCHANGED othersOfJob

\* open(mapping_path, 'w'): the file is truncated
OpenLedger ==
  /\ jPc \in {"open1", "open2"}
  /\ jLedger' = [c \in Chapters |-> "absent"]
  /\ jPc' = IF jPc = "open1" THEN "write1" ELSE "write2"
  /\ UNCHANGED <<jSequential, jBatch, jFiles, jLast, jRun, jRecreate, jTasks, jMap,
                 jLoaded, jDone, jOutcome, jSucc, jExit, jGood, jFinal>>
  /\ UNCHANGED <<jDeleted, jForced, jDryRun>>
  /\ UNCHANGED othersOfJob

\* the rows of the statuses read at startup are written
WriteRows_Loaded ==
  /\ jPc \in {"write1", "write2"}
  /\ jLedger' = jLoaded
  /\ jGood' = jLoaded
  /\ jFinal' = (jPc = "write2")
  /\ jPc' = IF jPc = "write1" THEN "convert" ELSE "savecfg"
  /\ UNCHANGED <<jSequential, jBatch, jFiles, jLast, jRun, jRecreate, jTasks, jMap,
                 jLoaded, jDone, jOutcome, jSucc, jExit>>
  /\ UNCHANGED <<jDeleted, jForced, jDryRun>>
  /\ UNCHANGED othersOfJob

\* the header and one row per entry of all_mappings are written, the file closed
WriteRows ==
  /\ jPc \in {"write1", "write2"}
  /\ jLedger' = jMap
  /\ jGood' = jMap
  /\ jFinal' = (jPc = "write2")
  /\ jPc' = IF jPc = "write1" THEN "convert" ELSE "savecfg"
  /\ UNCHANGED <<jSequential, jBatch, jFiles, jLast, jRun, jRecreate, jTasks, jMap,
                 jLoaded, jDone, jOutcome, jSucc, jExit>>
  /\ UNCHANGED <<jDeleted, jForced, jDryRun>>
  /\ UNCHANGED othersOfJob

\* what the synthesis of one task leaves at its output path: audio, or
\* nothing (an engine that returns without output) when it succeeds; the
\* file untouched, truncated or partly written when it fails
FilesAfter(outcome, before) ==
  IF outcome = "ok" THEN {"audio", "missing"} ELSE {before, "missing", "partial"}

\* the synthesis of audio task c ends (all retries, fallbacks and the retry
\* sweep included); on the sequential path its status is set at once
ConvertTask(c, outcome) ==
  /\ jPc = "convert"
  /\ ~jDryRun
  /\ c \in jTasks
  /\ jOutcome[c] = "none"
  /\ jSequential => \A d \in jTasks : d < c => jOutcome[d] # "none"
  /\ jOutcome' = [jOutcome EXCEPT ![c] = outcome]
  /\ \E f \in FilesAfter(outcome, jFiles[c]) :
       /\ jFiles' = [jFiles EXCEPT ![c] = f]
       /\ IF jSequential
          THEN IF outcome = "failed"
               THEN /\ jMap' = [jMap EXCEPT ![c] = "failed"]
                    /\ jSucc' = jSucc
               ELSE IF NonEmpty(f)
                    THEN /\ jMap' = [jMap EXCEPT ![c] = "completed"]
                         /\ jSucc' = jSucc \cup {c}
                    ELSE UNCHANGED <<jMap, jSucc>>
          ELSE UNCHANGED <<jMap, jSucc>>
  /\ UNCHANGED <<jSequential, jBatch, jLedger, jLast, jPc, jRun, jRecreate, jTasks,
                 jLoaded, jDone, jExit, jGood, jFinal>>
  /\ UNCHANGED <<jDeleted, jForced, jDryRun>>
  /\ UNCHANGED othersOfJob

\* convert_batch returned (or the sequential loop ended): on the batch path
\* the statuses are read off the files
ConversionOver ==
  /\ jPc = "convert"
  /\ ~jDryRun
  /\ \A c \in jTasks : jOutcome[c] # "none"
  /\ IF jSequential
     THEN UNCHANGED <<jMap, jSucc>>
     ELSE /\ jMap' = CheckFiles(jMap, jFiles, jTasks)
          /\ jSucc' = {c \in jTasks : NonEmpty(jFiles[c])}
  /\ jPc' = "open2"
  /\ UNCHANGED <<jSequential, jBatch, jFiles, jLedger, jLast, jRun, jRecreate, jTasks,
                 jLoaded, jDone, jOutcome, jExit, jGood, jFinal>>
  /\ UNCHANGED <<jDeleted, jForced, jDryRun>>
  /\ UNCHANGED othersOfJob

\* convert_batch raised before any task ran (no engine): caught, then the
\* statuses are read off the files
ConvertBatchRaises ==
  /\ jPc = "convert"
  /\ ~jDryRun
  /\ ~jSequential
  /\ \A c \in jTasks : jOutcome[c] = "none"
  /\ jOutcome' = [c \in Chapters |-> IF c \in jTasks THEN "failed" ELSE "none"]
  /\ jMap' = CheckFiles(jMap, jFiles, jTasks)
  /\ jSucc' = {c \in jTasks : NonEmpty(jFiles[c])}
  /\ jPc' = "open2"
  /\ UNCHANGED <<jSequential, jBatch, jFiles, jLedger, jLast, jRun, jRecreate, jTasks,
                 jLoaded, jDone, jExit, jGood, jFinal>>
  /\ UNCHANGED <<jDeleted, jForced, jDryRun>>
  /\ UNCHANGED othersOfJob

\* --dry-run: every conversion prints what it would do and returns without
\* touching a file; the statuses are then set as after a real conversion
DryRunConvert ==
  /\ jPc = "convert"
  /\ jDryRun
  /\ jOutcome' = [c \in Chapters |-> IF c \in jTasks THEN "dry" ELSE "none"]
  /\ IF jSequential
     THEN jMap' = [c \in Chapters |->
                     IF c \in jTasks /\ NonEmpty(jFiles[c]) THEN "completed" ELSE jMap[c]]
     ELSE jMap' = CheckFiles(jMap, jFiles, jTasks)
  /\ jSucc' = {c \in jTasks : NonEmpty(jFiles[c])}
  /\ jPc' = "open2"
  /\ UNCHANGED <<jSequential, jBatch, jFiles, jLedger, jLast, jRun, jRecreate, jTasks,
                 jLoaded, jDone, jExit, jGood, jFinal>>
  /\ UNCHANGED <<jDeleted, jForced, jDryRun>>
  /\ UNCHANGED othersOfJob

\* the resume marker is saved when a task succeeded; main() falls off its
\* end and the process exits with status 0
SaveConfig ==
  /\ jPc = "savecfg"
  /\ jLast' = IF jSucc # {} THEN MaxOf(jSucc) ELSE jLast
  /\ jExit' = "0"
  /\ jPc' = "idle"
  /\ UNCHANGED <<jSequential, jBatch, jFiles, jLedger, jRun, jRecreate, jTasks, jMap,
                 jLoaded, jDone, jOutcome, jSucc, jGood, jFinal>>
  /\ UNCHANGED <<jDeleted, jForced, jDryRun>>
  /\ UNCHANGED othersOfJob

\* the process is killed between two steps of a run
Interrupt ==
  /\ jPc \notin {"idle", "off"}
  /\ jPc' = "idle"
  /\ jExit' = "killed"
  /\ UNCHANGED <<jSequential, jBatch, jFiles, jLedger, jLast, jRun, jRecreate, jTasks,
                 jMap, jLoaded, jDone, jOutcome, jSucc, jGood, jFinal>>
  /\ UNCHANGED <<jDeleted, jForced, jDryRun>>
  /\ UNCHANGED othersOfJob

\* between two runs the user deletes an audio file
UserRemovesAudio(c) ==
  /\ jPc = "idle"
  /\ jRun < MaxRuns
  /\ jFiles[c] # "missing"
  /\ jFiles' = [jFiles EXCEPT ![c] = "missing"]
  /\ UNCHANGED <<jSequential, jBatch, jLedger, jLast, jPc, jRun, jRecreate, jTasks,
                 jMap, jLoaded, jDone, jOutcome, jSucc, jExit, jGood, jFinal>>
  /\ UNCHANGED <<jDeleted, jForced, jDryRun>>
  /\ UNCHANGED othersOfJob

\* between two runs the user deletes the row of chapter c from the mapping CSV
UserDeletesRow(c) ==
  /\ jPc = "idle"
  /\ jRun < MaxRuns
  /\ jLedger[c] # "absent"
  /\ jLedger' = [jLedger EXCEPT ![c] = "absent"]
  /\ jGood' = jLedger'
  /\ jFinal' = FALSE
  /\ jDeleted' = jDeleted \cup {c}
  /\ UNCHANGED <<jSequential, jBatch, jFiles, jLast, jPc, jRun, jRecreate, jTasks,
                 jMap, jLoaded, jDone, jOutcome, jSucc, jExit, jForced, jDryRun>>
  /\ UNCHANGED othersOfJob

NextJob ==
  \/ \E recreate, dry_run \in BOOLEAN : PlanRun(recreate, dry_run)
  \/ OpenLedger
  \/ WriteRows
  \/ \E c \in Chapters, outcome \in {"ok", "failed"} : ConvertTask(c, outcome)
  \/ ConversionOver
  \/ ConvertBatchRaises
  \/ DryRunConvert
  \/ SaveConfig
  \/ Interrupt
  \/ \E c \in Chapters : UserRemovesAudio(c)
  \/ \E c \in Chapters : UserDeletesRow(c)

SpecJob == InitJob /\ [][NextJob]_vars

\* ================================== tts_engines.py: _split_text_into_chunks
\* A text is its words in order, single spaces between them.  A word is c
\* characters that take b bytes in UTF-8, followed by at most one
\* punctuation mark p ("." or ","; one character, one byte).  A string that
\* the chunker builds is kept as its measure: length in characters c (len())
\* and in bytes b (len(s.encode('utf-8'))), the positions ids in the text of
\* the words it holds, in order, the number m of punctuation marks of the text
\* it holds, and whether it ends with a "." the chunker appended (d).

MaxWords == 3

\* `len(text) >= 150`: from this length on a text without punctuation is
\* split word by word
NoPunctuationMin == 150

Shapes == {[c |-> 2, b |-> 2], [c |-> 2, b |-> 6], [c |-> 80, b |-> 80]}
Marks == {"", ".", ","}
Words == {[c |-> s.c, b |-> s.b, p |-> m] : s \in Shapes, m \in Marks}
\* <<>> is a text without a word: empty or whitespace only
Texts == UNION {[1..n -> Words] : n \in 0..MaxWords}
ByteLimits == {6, 80, 200}
SentenceLimits == {3, 100}

EmptyStr == [c |-> 0, b |-> 0, ids |-> <<>>, m |-> 0, d |-> FALSE]

\* the words of a text with their positions
Indexed(ws) == [i \in 1..Len(ws) |-> [c |-> ws[i].c, b |-> ws[i].b, p |-> ws[i].p, i |-> i]]

\* measure of one word with its punctuation mark
WordM(w) ==
  IF w.p = "" THEN [c |-> w.c, b |-> w.b, ids |-> <<w.i>>, m |-> 0, d |-> FALSE]
  ELSE [c |-> w.c + 1, b |-> w.b + 1, ids |-> <<w.i>>, m |-> 1, d |-> FALSE]

\* measure of one word without its punctuation mark
BareM(w) == [c |-> w.c, b |-> w.b, ids |-> <<w.i>>, m |-> 0, d |-> FALSE]

\* `cur + " " + piece if cur else piece`
Cat(cur, piece) ==
  IF cur.c = 0 THEN piece
  ELSE [c |-> cur.c + 1 + piece.c, b |-> cur.b + 1 + piece.b,
        ids |-> cur.ids \o piece.ids, m |-> cur.m + piece.m, d |-> piece.d]

\* `s + "."`
Dot(s) == [s EXCEPT !.c = @ + 1, !.b = @ + 1, !.d = TRUE]

\* `s` without its last character, a one-byte punctuation mark
Chop(s) == [s EXCEPT !.c = @ - 1, !.b = @ - 1, !.m = @ - 1]

\* measure of the words ws joined by single spaces
RECURSIVE StrM(_)
StrM(ws) ==
  IF ws = <<>> THEN EmptyStr
  ELSE Cat(StrM(SubSeq(ws, 1, Len(ws) - 1)), WordM(ws[Len(ws)]))

\* re.split(r'([<seps>])', text) with each separator put back on its part:
\* the runs of words that end at a word marked with a separator
RECURSIVE PartsFrom(_, _, _, _, _)
PartsFrom(ws, seps, i, cur, out) ==
  IF i > Len(ws) THEN (IF cur = <<>> THEN out ELSE Append(out, cur))
  ELSE IF ws[i].p \in seps
       THEN PartsFrom(ws, seps, i + 1, <<>>, Append(out, Append(cur, ws[i])))
       ELSE PartsFrom(ws, seps, i + 1, Append(cur, ws[i]), out)

Parts(ws, seps) == PartsFrom(ws, seps, 1, <<>>, <<>>)

\* GoogleCloudTTS._split_text_without_punctuation: words are gathered while
\* the chunk fits max_sentence_length and max_bytes; "." is appended to
\* each chunk as it is stored
RECURSIVE NoPunctFrom(_, _, _, _, _, _)
NoPunctFrom(ws, i, cur, out, max_bytes, max_sentence_length) ==
  IF i > Len(ws) THEN (IF cur.c > 0 THEN Append(out, Dot(cur)) ELSE out)
  ELSE LET test == Cat(cur, WordM(ws[i])) IN
       IF test.c <= max_sentence_length /\ test.b <= max_bytes
       THEN NoPunctFrom(ws, i + 1, test, out, max_bytes, max_sentence_length)
       ELSE NoPunctFrom(ws, i + 1, WordM(ws[i]),
                        IF cur.c > 0 THEN Append(out, Dot(cur)) ELSE out,
                        max_bytes, max_sentence_length)

SplitTextWithoutPunctuation(ws, max_bytes, max_sentence_length) ==
  NoPunctFrom(ws, 1, EmptyStr, <<>>, max_bytes, max_sentence_length)

\* the word loops of _split_long_sentence: words are gathered while the
\* part fits max_length characters; "." is appended to each part
RECURSIVE ByWordsFrom(_, _, _, _, _)
ByWordsFrom(ms, i, cur, out, max_length) ==
  IF i > Len(ms) THEN (IF cur.c > 0 THEN Append(out, Dot(cur)) ELSE out)
  ELSE LET test == Cat(cur, ms[i]) IN
       IF test.c <= max_length
       THEN ByWordsFrom(ms, i + 1, test, out, max_length)
       ELSE ByWordsFrom(ms, i + 1, ms[i],
                        IF cur.c > 0 THEN Append(out, Dot(cur)) ELSE out, max_length)

\* GoogleCloudTTS._split_long_sentence on a part of the text (its words, the
\* last one carrying the part's punctuation mark).  A part that ends with
\* "," is split at the comma first: the piece before it (the comma is
\* dropped) is kept when it fits, else split by words; any other part is
\* split by words, its mark counted with its last word.
SplitLongSentence(part, max_length) ==
  LET n == Len(part)
      bare == [i \in 1..n |-> IF i = n THEN BareM(part[i]) ELSE WordM(part[i])]
      marked == [i \in 1..n |-> WordM(part[i])]
  IN IF part[n].p = ","
     THEN IF Chop(StrM(part)).c <= max_length
          THEN <<Chop(StrM(part))>>
          ELSE ByWordsFrom(bare, 1, EmptyStr, <<>>, max_length)
     ELSE ByWordsFrom(marked, 1, EmptyStr, <<>>, max_length)

\* the pieces the main loop of GoogleCloudTTS._split_text_into_chunks adds
\* to chunks: each part, or its sub_parts when it is longer than
\* max_sentence_length
RECURSIVE PiecesFrom(_, _, _)
PiecesFrom(parts, i, max_sentence_length) ==
  IF i > Len(parts) THEN <<>>
  ELSE (IF StrM(parts[i]).c > max_sentence_length
        THEN SplitLongSentence(parts[i], max_sentence_length)
        ELSE <<StrM(parts[i])>>)
       \o PiecesFrom(parts, i + 1, max_sentence_length)

\* `test_bytes <= max_bytes`: pieces are gathered while the chunk fits
\* max_bytes; else the chunk is stored and the piece starts the next one
RECURSIVE PackFrom(_, _, _, _, _)
PackFrom(pieces, i, cur, out, max_bytes) ==
  IF i > Len(pieces) THEN (IF cur.c > 0 THEN Append(out, cur) ELSE out)
  ELSE LET test == Cat(cur, pieces[i]) IN
       IF test.b <= max_bytes
       THEN PackFrom(pieces, i + 1, test, out, max_bytes)
       ELSE PackFrom(pieces, i + 1, pieces[i],
                     IF cur.c > 0 THEN Append(out, cur) ELSE out, max_bytes)

\* _split_into_sentences: the text split at ".", the mark removed
SentenceLengths(ws) ==
  LET ss == Parts(ws, {"."}) IN
    {(IF ss[i][Len(ss[i])].p = "." THEN Chop(StrM(ss[i])) ELSE StrM(ss[i])).c :
       i \in 1..Len(ss)}

\* GoogleCloudTTS._split_text_into_chunks
GoogleSplitTextIntoChunks(text, max_bytes, max_sentence_length) ==
  LET ws == Indexed(text)
      has_punctuation == \E i \in 1..Len(ws) : ws[i].p # ""
  IN IF ~has_punctuation /\ StrM(ws).c >= NoPunctuationMin
     THEN SplitTextWithoutPunctuation(ws, max_bytes, max_sentence_length)
     ELSE IF /\ StrM(ws).b <= max_bytes
             /\ \A l \in SentenceLengths(ws) : l <= max_sentence_length
          THEN <<StrM(ws)>>
          ELSE PackFrom(PiecesFrom(Parts(ws, {".", ","}), 1, max_sentence_length),
                        1, EmptyStr, <<>>, max_bytes)

\* the lengths in characters of the sentences and fragments inside the
\* chunks GoogleCloudTTS._split_text_into_chunks returns, each with its
\* mark: the chunks of _split_text_without_punctuation, the sentences of a
\* text returned whole, or the parts and sub_parts the main loop packs
GoogleFragments(text, max_bytes, max_sentence_length) ==
  LET ws == Indexed(text)
      has_punctuation == \E i \in 1..Len(ws) : ws[i].p # ""
      whole == Parts(ws, {"."})
      chunks == SplitTextWithoutPunctuation(ws, max_bytes, max_sentence_length)
      pieces == PiecesFrom(Parts(ws, {".", ","}), 1, max_sentence_length)
  IN IF ~has_punctuation /\ StrM(ws).c >= NoPunctuationMin
     THEN {chunks[i].c : i \in 1..Len(chunks)}
     ELSE IF /\ StrM(ws).b <= max_bytes
             /\ \A l \in SentenceLengths(ws) : l <= max_sentence_length
          THEN {StrM(whole[i]).c : i \in 1..Len(whole)}
          ELSE {pieces[i].c : i \in 1..Len(pieces)}

\* EdgeTTS._split_text_into_chunks, the word loop: returns the chunks
\* stored and temp_chunk
RECURSIVE EdgeWordsFrom(_, _, _, _, _)
EdgeWordsFrom(ms, i, cur, out, max_size) ==
  IF i > Len(ms) THEN [chunks |-> out, current |-> cur]
  ELSE LET test == Cat(cur, ms[i]) IN
       IF test.c <= max_size
       THEN EdgeWordsFrom(ms, i + 1, test, out, max_size)
       ELSE EdgeWordsFrom(ms, i + 1, ms[i],
                          IF cur.c > 0 THEN Append(out, cur) ELSE out, max_size)

\* EdgeTTS._split_text_into_chunks, the loop over the parts
RECURSIVE EdgePartsFrom(_, _, _, _, _)
EdgePartsFrom(parts, i, cur, out, max_size) ==
  IF i > Len(parts) THEN (IF cur.c > 0 THEN Append(out, cur) ELSE out)
  ELSE LET part == StrM(parts[i])
           test == Cat(cur, part)
           stored == IF cur.c > 0 THEN Append(out, cur) ELSE out
       IN IF test.c <= max_size
          THEN EdgePartsFrom(parts, i + 1, test, out, max_size)
          ELSE IF part.c > max_size
               THEN LET r == EdgeWordsFrom([k \in 1..Len(parts[i]) |-> WordM(parts[i][k])],
                                           1, EmptyStr, stored, max_size)
                    IN EdgePartsFrom(parts, i + 1, r.current, r.chunks, max_size)
               ELSE EdgePartsFrom(parts, i + 1, part, stored, max_size)

EdgeSplitTextIntoChunks(text, max_size) ==
  LET ws == Indexed(text)
  IN IF StrM(ws).c <= max_size THEN <<StrM(ws)>>
     ELSE EdgePartsFrom(Parts(ws, {"."}), 1, EmptyStr, <<>>, max_size)

InitChunker ==
  /\ chText \in Texts
  /\ chMaxBytes \in ByteLimits
  /\ chMaxSentence \in SentenceLimits
  /\ chChunker = "none"
  /\ chChunks = <<>>
  /\ BatchIdle
  /\ RetryIdle
  /\ FallbackIdle
  /\ JobIdle
  /\ MultiIdle
  /\ EntryIdle
  /\ FetchIdle

\* speak of any engine: `if not text.strip(): raise RuntimeError("Input text
\* is empty")`, before the text is split and before any request
SpeakRejectsEmpty ==
  /\ chChunker = "none"
  /\ chText = <<>>
  /\ chChunker' = "raised"
  /\ UNCHANGED <<chText, chMaxBytes, chMaxSentence, chChunks>>
  /\ UNCHANGED othersOfChunker

\* the text is split whatever it is
GoogleSplit_NoGuard ==
  /\ chChunker = "none"
  /\ chChunker' = "google"
  /\ chChunks' = GoogleSplitTextIntoChunks(chText, chMaxBytes, chMaxSentence)
  /\ UNCHANGED <<chText, chMaxBytes, chMaxSentence>>
  /\ UNCHANGED othersOfChunker

\* GoogleCloudTTS.speak up to the split of a text that is not blank
GoogleSplit ==
  /\ chChunker = "none"
  /\ chText # <<>>
  /\ chChunker' = "google"
  /\ chChunks' = GoogleSplitTextIntoChunks(chText, chMaxBytes, chMaxSentence)
  /\ UNCHANGED <<chText, chMaxBytes, chMaxSentence>>
  /\ UNCHANGED othersOfChunker

\* EdgeTTS.speak up to the split of a text that is not blank
EdgeSplit ==
  /\ chChunker = "none"
  /\ chText # <<>>
  /\ chChunker' = "edge"
  /\ chChunks' = EdgeSplitTextIntoChunks(chText, chMaxBytes)
  /\ UNCHANGED <<chText, chMaxBytes, chMaxSentence>>
  /\ UNCHANGED othersOfChunker

NextChunker ==
  \/ SpeakRejectsEmpty
  \/ GoogleSplit
  \/ EdgeSplit

SpecChunker == InitChunker /\ [][NextChunker]_vars

\* ------------------------------------- speak on a text of several chunks
MaxChunks == 3
MaxSynthRetries == 2

\* the intermediate files speak writes for its chunks, named by chunk number
PartFiles == 1..MaxChunks

MultiEngines == {"edge", "google", "azure"}

\* ffmpeg: not installed | installed and its run fails | installed and works
FfmpegStates == {"absent", "fails", "works"}

InitMulti ==
  /\ mEngine \in MultiEngines
  /\ mNumChunks \in 2..MaxChunks
  /\ mMaxRetries \in 1..MaxSynthRetries
  /\ ffmpeg \in FfmpegStates
  /\ mPc = "chunks"
  /\ mI = 1 /\ mAttempt = 0 /\ mChunkAttempt = 0
  /\ temp_files = {} /\ failed_chunks = {}
  /\ partFile = [i \in PartFiles |-> "missing"]
  /\ mOutput = "missing" /\ mWarned = FALSE /\ mStatus = "running"
  /\ BatchIdle
  /\ RetryIdle
  /\ FallbackIdle
  /\ JobIdle
  /\ ChunkerIdle
  /\ EntryIdle
  /\ FetchIdle

\* the files of fs are removed (os.remove in a loop over temp_files)
Removed(files, fs) == [i \in PartFiles |-> IF i \in fs THEN "missing" ELSE files[i]]

ValidFiles == {i \in temp_files : partFile[i] = "audio"}

Lowest(S) == CHOOSE i \in S : \A j \in S : i <= j

\* EdgeTTS.speak: comm.save(temp_file) of chunk mI wrote a non-empty file
EdgeChunkSucceeds ==
  /\ mEngine = "edge" /\ mPc = "chunks" /\ mI <= mNumChunks
  /\ temp_files' = temp_files \cup {mI}
  /\ partFile' = [partFile EXCEPT ![mI] = "audio"]
  /\ mI' = mI + 1
  /\ mChunkAttempt' = 0
  /\ UNCHANGED <<mEngine, mNumChunks, mMaxRetries, ffmpeg, mPc, mAttempt,
                 failed_chunks, mOutput, mWarned, mStatus>>
  /\ UNCHANGED othersOfMulti

\* EdgeTTS.speak: the attempt on chunk mI raised or left no audio (the file is
\* then absent or empty); sleep and retry, or give the chunk up and remove
\* its file
EdgeChunkFails(left) ==
  /\ mEngine = "edge" /\ mPc = "chunks" /\ mI <= mNumChunks
  /\ temp_files' = temp_files \cup {mI}
  /\ IF mChunkAttempt < mMaxRetries - 1
       THEN /\ mChunkAttempt' = mChunkAttempt + 1
            /\ partFile' = [partFile EXCEPT ![mI] = left]
            /\ UNCHANGED <<mI, failed_chunks>>
       ELSE /\ failed_chunks' = failed_chunks \cup {mI}
            /\ partFile' = [partFile EXCEPT ![mI] = "missing"]
            /\ mI' = mI + 1
            /\ mChunkAttempt' = 0
  /\ UNCHANGED <<mEngine, mNumChunks, mMaxRetries, ffmpeg, mPc, mAttempt,
                 mOutput, mWarned, mStatus>>
  /\ UNCHANGED othersOfMulti

\* EdgeTTS.speak after the loop over the chunks: raise when no chunk has
\* audio, rename the only valid file, or join the valid files with ffmpeg
\* and fall back to the first valid file with a warning
EdgeJoin ==
  /\ mEngine = "edge" /\ mPc = "chunks" /\ mI = mNumChunks + 1
  /\ IF ValidFiles = {}
       THEN /\ mStatus' = "raised"
            /\ UNCHANGED <<partFile, mOutput, mWarned>>
       ELSE /\ mStatus' = "success"
            /\ IF Cardinality(ValidFiles) = 1
                 THEN /\ partFile' = Removed(partFile, {Lowest(ValidFiles)})
                      /\ mOutput' = "chunk"
                      /\ UNCHANGED mWarned
                 ELSE IF ffmpeg = "works"
                   THEN /\ mOutput' = "joined"
                        /\ UNCHANGED <<partFile, mWarned>>
                   ELSE /\ mWarned' = TRUE
                        /\ partFile' = Removed(partFile, {Lowest(ValidFiles)})
                        /\ mOutput' = "chunk"
  /\ mPc' = "finally"
  /\ UNCHANGED <<mEngine, mNumChunks, mMaxRetries, ffmpeg, mI, mAttempt,
                 mChunkAttempt, temp_files, failed_chunks>>
  /\ UNCHANGED othersOfMulti

\* the `finally:` of EdgeTTS.speak and GoogleCloudTTS.speak: every file of
\* temp_files is removed
Finally ==
  /\ mEngine \in {"edge", "google"} /\ mPc = "finally"
  /\ partFile' = Removed(partFile, temp_files)
  /\ mPc' = "end"
  /\ UNCHANGED <<mEngine, mNumChunks, mMaxRetries, ffmpeg, mI, mAttempt,
                 mChunkAttempt, temp_files, failed_chunks, mOutput, mWarned, mStatus>>
  /\ UNCHANGED othersOfMulti

\* GoogleCloudTTS.speak / AzureTTS.speak: the attempt raised; `except`
\* sleeps and starts the next attempt, or raises after the last one
AttemptFails(ending) ==
  IF mAttempt < mMaxRetries - 1
    THEN /\ mAttempt' = mAttempt + 1
         /\ mI' = 1
         /\ mChunkAttempt' = 0
         /\ UNCHANGED <<mPc, mStatus>>
    ELSE /\ mStatus' = "raised"
         /\ mPc' = ending
         /\ UNCHANGED <<mI, mAttempt, mChunkAttempt>>

\* GoogleCloudTTS._synthesize_all: synthesize_speech of chunk mI returned;
\* its audio is kept in memory
GoogleChunkSucceeds ==
  /\ mEngine = "google" /\ mPc = "chunks" /\ mI <= mNumChunks
  /\ mI' = mI + 1
  /\ mChunkAttempt' = 0
  /\ UNCHANGED <<mEngine, mNumChunks, mMaxRetries, ffmpeg, mPc, mAttempt,
                 temp_files, failed_chunks, partFile, mOutput, mWarned, mStatus>>
  /\ UNCHANGED othersOfMulti

\* GoogleCloudTTS._synthesize_all: synthesize_speech of chunk mI raised;
\* sleep and retry the chunk, or fail the attempt
GoogleChunkFails ==
  /\ mEngine = "google" /\ mPc = "chunks" /\ mI <= mNumChunks
  /\ IF mChunkAttempt < mMaxRetries - 1
       THEN /\ mChunkAttempt' = mChunkAttempt + 1
            /\ UNCHANGED <<mI, mAttempt, mPc, mStatus>>
       ELSE AttemptFails("finally")
  /\ UNCHANGED <<mEngine, mNumChunks, mMaxRetries, ffmpeg, temp_files,
                 failed_chunks, partFile, mOutput, mWarned>>
  /\ UNCHANGED othersOfMulti

\* GoogleCloudTTS._synthesize_all with every chunk in memory: write the
\* chunk files, join them with ffmpeg, or warn and write the first chunk
GoogleJoin ==
  /\ mEngine = "google" /\ mPc = "chunks" /\ mI = mNumChunks + 1
  /\ temp_files' = 1..mNumChunks
  /\ partFile' = [i \in PartFiles |-> IF i <= mNumChunks THEN "audio" ELSE partFile[i]]
  /\ IF ffmpeg = "works"
       THEN mOutput' = "joined" /\ UNCHANGED mWarned
       ELSE mOutput' = "chunk" /\ mWarned' = TRUE
  /\ mStatus' = "success"
  /\ mPc' = "finally"
  /\ UNCHANGED <<mEngine, mNumChunks, mMaxRetries, ffmpeg, mI, mAttempt,
                 mChunkAttempt, failed_chunks>>
  /\ UNCHANGED othersOfMulti

\* AzureTTS._synthesize: the synthesizer of chunk mI completed and wrote
\* temp_file, which is then appended to temp_files
AzureChunkSucceeds ==
  /\ mEngine = "azure" /\ mPc = "chunks" /\ mI <= mNumChunks
  /\ partFile' = [partFile EXCEPT ![mI] = "audio"]
  /\ temp_files' = temp_files \cup {mI}
  /\ mI' = mI + 1
  /\ UNCHANGED <<mEngine, mNumChunks, mMaxRetries, ffmpeg, mPc, mAttempt,
                 mChunkAttempt, failed_chunks, mOutput, mWarned, mStatus>>
  /\ UNCHANGED othersOfMulti

\* AzureTTS._synthesize: the synthesizer of chunk mI did not complete; the
\* file it was given is absent or was created empty.  RuntimeError is raised
\* before the append, `except` removes the files of temp_files, and the
\* attempt fails
AzureChunkFails(left) ==
  /\ mEngine = "azure" /\ mPc = "chunks" /\ mI <= mNumChunks
  /\ partFile' = [Removed(partFile, temp_files) EXCEPT ![mI] = left]
  /\ temp_files' = IF mAttempt < mMaxRetries - 1 THEN {} ELSE temp_files
  /\ AttemptFails("end")
  /\ UNCHANGED <<mEngine, mNumChunks, mMaxRetries, ffmpeg, failed_chunks,
                 mOutput, mWarned>>
  /\ UNCHANGED othersOfMulti

\* AzureTTS._synthesize with every chunk file written: copy the first file
\* when ffmpeg is absent, else run ffmpeg with check=True; the chunk files
\* are removed on both ways out
AzureJoin ==
  /\ mEngine = "azure" /\ mPc = "chunks" /\ mI = mNumChunks + 1
  /\ partFile' = Removed(partFile, temp_files)
  /\ IF ffmpeg = "fails"
       THEN /\ AttemptFails("end")
            /\ temp_files' = IF mAttempt < mMaxRetries - 1 THEN {} ELSE temp_files
            /\ UNCHANGED mOutput
       ELSE /\ mOutput' = IF ffmpeg = "works" THEN "joined" ELSE "chunk"
            /\ mStatus' = "success"
            /\ mPc' = "end"
            /\ UNCHANGED <<mI, mAttempt, mChunkAttempt, temp_files>>
  /\ UNCHANGED <<mEngine, mNumChunks, mMaxRetries, ffmpeg, failed_chunks, mWarned>>
  /\ UNCHANGED othersOfMulti

NextMulti ==
  \/ EdgeChunkSucceeds
  \/ \E left \in {"missing", "empty"} : EdgeChunkFails(left)
  \/ EdgeJoin
  \/ Finally
  \/ GoogleChunkSucceeds
  \/ GoogleChunkFails
  \/ GoogleJoin
  \/ AzureChunkSucceeds
  \/ \E left \in {"missing", "empty"} : AzureChunkFails(left)
  \/ AzureJoin

SpecMulti == InitMulti /\ [][NextMulti]_vars

\* --------------------------- one call of convert or convert_batch (entry)
Backends == {"ttx", "edge-tts", "gtts", "google-cloud"}

\* the backends __init__ builds a tts_engine for
EngineBackends == {"edge-tts", "gtts", "google-cloud"}

\* a converter as constructed, before the call.  tts_engine is None for ttx,
\* and for the other backends when _init_tts_engine failed; GoogleCloudTTS
\* is not constructed without its library unless dry_run is set
InitEntry ==
  /\ dBackend \in Backends
  /\ dEngine \in BOOLEAN
  /\ dInstalled \in BOOLEAN
  /\ dDryRun \in BOOLEAN
  /\ dBlank \in BOOLEAN
  /\ dEngine => dBackend \in EngineBackends
  /\ (dEngine /\ dBackend = "google-cloud" /\ ~dDryRun) => dInstalled
  /\ dCall = "none" /\ dStatus = "pending" /\ dCalled = FALSE /\ dOutput = "missing"
  /\ BatchIdle
  /\ RetryIdle
  /\ FallbackIdle
  /\ JobIdle
  /\ ChunkerIdle
  /\ MultiIdle
  /\ FetchIdle

\* the Provider is called: the output file is written, or the call fails
ProviderCall(ok) ==
  /\ dCalled' = TRUE
  /\ dOutput' = IF ok THEN "audio" ELSE "missing"

NoProviderCall ==
  UNCHANGED <<dCalled, dOutput>>

\* engine.speak: dry-run returns first, then is_available, then blank text
EngineSpeak(ok) ==
  IF dDryRun THEN dStatus' = "returned" /\ NoProviderCall
  ELSE IF ~dInstalled \/ dBlank THEN dStatus' = "raised" /\ NoProviderCall
  ELSE dStatus' = (IF ok THEN "returned" ELSE "raised") /\ ProviderCall(ok)

\* convert -> _convert_with_engine: blank text raises, then engine.speak
ConvertWithEngine(ok) ==
  /\ dStatus = "pending" /\ dEngine
  /\ dCall' = "convert"
  /\ IF dBlank THEN dStatus' = "raised" /\ NoProviderCall
     ELSE EngineSpeak(ok)
  /\ UNCHANGED <<dBackend, dEngine, dInstalled, dDryRun, dBlank>>
  /\ UNCHANGED othersOfEntry

\* convert -> _convert_ttx: dry-run returns before the command is run
ConvertTtx(ok) ==
  /\ dStatus = "pending" /\ ~dEngine /\ dBackend = "ttx"
  /\ dCall' = "convert"
  /\ IF dDryRun THEN dStatus' = "returned" /\ NoProviderCall
     ELSE IF ~dInstalled THEN dStatus' = "raised" /\ NoProviderCall
     ELSE dStatus' = (IF ok THEN "returned" ELSE "raised") /\ ProviderCall(ok)
  /\ UNCHANGED <<dBackend, dEngine, dInstalled, dDryRun, dBlank>>
  /\ UNCHANGED othersOfEntry

\* convert -> _convert_edge_tts: dry-run returns before Communicate is looked at
ConvertEdgeTts(ok) ==
  /\ dStatus = "pending" /\ ~dEngine /\ dBackend = "edge-tts"
  /\ dCall' = "convert"
  /\ IF dDryRun THEN dStatus' = "returned" /\ NoProviderCall
     ELSE IF ~dInstalled THEN dStatus' = "raised" /\ NoProviderCall
     ELSE dStatus' = (IF ok THEN "returned" ELSE "raised") /\ ProviderCall(ok)
  /\ UNCHANGED <<dBackend, dEngine, dInstalled, dDryRun, dBlank>>
  /\ UNCHANGED othersOfEntry

\* convert -> _convert_gtts: dry-run, then the library, then blank text
ConvertGtts(ok) ==
  /\ dStatus = "pending" /\ ~dEngine /\ dBackend = "gtts"
  /\ dCall' = "convert"
  /\ IF dDryRun THEN dStatus' = "returned" /\ NoProviderCall
     ELSE IF ~dInstalled \/ dBlank THEN dStatus' = "raised" /\ NoProviderCall
     ELSE dStatus' = (IF ok THEN "returned" ELSE "raised") /\ ProviderCall(ok)
  /\ UNCHANGED <<dBackend, dEngine, dInstalled, dDryRun, dBlank>>
  /\ UNCHANGED othersOfEntry

\* convert without engine on a backend that has no legacy function:
\* ValueError('Unknown backend')
ConvertUnknownBackend ==
  /\ dStatus = "pending" /\ ~dEngine /\ dBackend \notin {"ttx", "edge-tts", "gtts"}
  /\ dCall' = "convert"
  /\ dStatus' = "raised"
  /\ NoProviderCall
  /\ UNCHANGED <<dBackend, dEngine, dInstalled, dDryRun, dBlank>>
  /\ UNCHANGED othersOfEntry

\* convert_batch with tts_engine None: only edge-tts, Communicate must be
\* there, then dry-run returns, else the workers run and failures are printed
ConvertBatchLegacy(ok) ==
  /\ dStatus = "pending" /\ ~dEngine
  /\ dCall' = "convert_batch"
  /\ IF dBackend # "edge-tts" \/ ~dInstalled THEN dStatus' = "raised" /\ NoProviderCall
     ELSE IF dDryRun THEN dStatus' = "returned" /\ NoProviderCall
     ELSE dStatus' = "returned" /\ ProviderCall(ok)
  /\ UNCHANGED <<dBackend, dEngine, dInstalled, dDryRun, dBlank>>
  /\ UNCHANGED othersOfEntry

\* convert_batch with an engine: dry-run returns before any worker; else the
\* workers call engine.speak and the failures are returned as a list
ConvertBatchEngine(ok) ==
  /\ dStatus = "pending" /\ dEngine
  /\ dCall' = "convert_batch"
  /\ dStatus' = "returned"
  /\ IF dDryRun \/ ~dInstalled \/ dBlank THEN NoProviderCall ELSE ProviderCall(ok)
  /\ UNCHANGED <<dBackend, dEngine, dInstalled, dDryRun, dBlank>>
  /\ UNCHANGED othersOfEntry

NextEntry ==
  \/ \E ok \in BOOLEAN : ConvertWithEngine(ok)
  \/ \E ok \in BOOLEAN : ConvertTtx(ok)
  \/ \E ok \in BOOLEAN : ConvertEdgeTts(ok)
  \/ \E ok \in BOOLEAN : ConvertGtts(ok)
  \/ ConvertUnknownBackend
  \/ \E ok \in BOOLEAN : ConvertBatchLegacy(ok)
  \/ \E ok \in BOOLEAN : ConvertBatchEngine(ok)

SpecEntry == InitEntry /\ [][NextEntry]_vars

\* ------------------------------------------ ChapterFetcher.fetch_chapter
MaxCands == 2
MaxAttempts == 3

\* what session.get gives: a status code class, or a RequestException
Responses == {"200", "404", "4xx", "5xx", "exc"}

InitFetch ==
  /\ fNumCands \in 1..MaxCands
  /\ fMaxAttempts \in 1..MaxAttempts
  /\ fCand = 1 /\ fAttempt = 0 /\ fWait = 1
  /\ fRequests = <<>> /\ fSleeps = <<>>
  /\ fLastExc = 0 /\ fStatus = "running" /\ fBody = 0 /\ fRaised = 0
  /\ BatchIdle
  /\ RetryIdle
  /\ FallbackIdle
  /\ JobIdle
  /\ ChunkerIdle
  /\ MultiIdle
  /\ EntryIdle

\* `wait` stays as it is
NextWait_Constant(wait) ==
  wait

\* wait *= 2
NextWait(wait) ==
  wait * 2

\* no status ends the attempts on a candidate
Definitive_Never(resp) ==
  FALSE

\* 404, and every other 4xx, ends the attempts on the candidate (`break`)
Definitive(resp) ==
  resp \in {"404", "4xx"}

\* the `for candidate in candidates` loop takes the next candidate, or ends
\* and last_exc is raised
NextCandidate(last) ==
  IF fCand < fNumCands
    THEN /\ fCand' = fCand + 1
         /\ fAttempt' = 0
         /\ fWait' = 1
         /\ UNCHANGED <<fStatus, fRaised>>
    ELSE /\ fStatus' = "raised"
         /\ fRaised' = last
         /\ UNCHANGED <<fCand, fAttempt, fWait>>

\* one pass of the `while attempt < self.max_attempts` body: session.get on
\* the current candidate and what follows from its response
Get(resp) ==
  /\ fStatus = "running"
  /\ fAttempt < fMaxAttempts
  /\ fRequests' = Append(fRequests, [cand |-> fCand, resp |-> resp])
  /\ LET n == Len(fRequests) + 1 IN
       IF resp = "200"
         THEN /\ fStatus' = "returned"
              /\ fBody' = n
              /\ UNCHANGED <<fCand, fAttempt, fWait, fSleeps, fLastExc, fRaised>>
       ELSE IF Definitive(resp)
         THEN /\ fLastExc' = n
              /\ NextCandidate(n)
              /\ UNCHANGED <<fSleeps, fBody>>
       ELSE IF resp = "5xx" \/ fAttempt + 1 < fMaxAttempts
         THEN \* time.sleep(wait); wait *= 2 (a 5xx sleeps after the last attempt too)
              /\ fLastExc' = n
              /\ fSleeps' = Append(fSleeps, [cand |-> fCand, wait |-> fWait])
              /\ UNCHANGED fBody
              /\ IF fAttempt + 1 < fMaxAttempts
                   THEN /\ fAttempt' = fAttempt + 1
                        /\ fWait' = NextWait(fWait)
                        /\ UNCHANGED <<fCand, fStatus, fRaised>>
                   ELSE NextCandidate(n)
       ELSE /\ fLastExc' = n
            /\ NextCandidate(n)
            /\ UNCHANGED <<fSleeps, fBody>>
  /\ UNCHANGED <<fNumCands, fMaxAttempts>>
  /\ UNCHANGED othersOfFetch

NextFetch ==
  \E resp \in Responses : Get(resp)

SpecFetch == InitFetch /\ [][NextFetch]_vars

\* ================================================================ claims

\* ---------------------------------------------------------------- C1
\* C1: during convert_batch, in both the main pass and the retry sweep, the
\* number of tasks whose synthesis is in flight never exceeds `concurrency`.
C1_AtMostNInFlight ==
  phase \in {"main", "retry", "done"} => Cardinality(InFlight) <= concurrency

\* the bound is reached in the sweep while another failed task is held back
C1_Witness ==
  /\ phase = "retry"
  /\ Cardinality(InFlight) = concurrency
  /\ \E t \in Tasks : wstate[t] = "waiting"

\* ---------------------------------------------------------------- C2
\* C2: with retry_failed the sweep starts only after every main-pass worker
\* has finished, re-runs exactly the tasks that failed in the main pass, each
\* once, never a task that succeeded, and the result lists exactly the tasks
\* that failed again; without retry_failed every task is run exactly once.
C2_RetrySweepExact ==
  /\ (\E t \in Tasks : sweepRuns[t] > 0) =>
        \A t \in Tasks : mainResult[t] \in {"ok", "failed"}
  /\ phase = "done" =>
        IF retry_failed
          THEN /\ \A t \in Tasks :
                    /\ mainRuns[t] = 1
                    /\ mainResult[t] = "failed" => sweepRuns[t] = 1
                    /\ mainResult[t] = "ok" => sweepRuns[t] = 0
               /\ SeqToSet(result.failed) =
                    {t \in Tasks : mainResult[t] = "failed" /\ sweepResult[t] = "failed"}
          ELSE \A t \in Tasks : mainRuns[t] = 1 /\ sweepRuns[t] = 0

\* ---------------------------------------------------------------- C3
\* C3: a task whose synthesis raises never cancels or prevents another task:
\* when convert_batch returns, every task was executed by a worker to its own
\* success or failure in the main pass, and every task re-queued by the sweep
\* was executed to its own success or failure in the sweep.
C3_FailureIsolated ==
  /\ phase \in {"retry", "done"} =>
        \A t \in Tasks : mainRuns[t] >= 1 /\ mainResult[t] \in {"ok", "failed"}
  /\ (phase = "done" /\ \E t \in Tasks : sweepRuns[t] > 0) =>
        \A t \in Tasks : mainResult[t] = "failed" =>
              sweepRuns[t] >= 1 /\ sweepResult[t] \in {"ok", "failed"}

\* a batch with failures and successes side by side in both passes
C3_Witness ==
  /\ phase = "done"
  /\ \E t, u \in Tasks : mainResult[t] = "failed" /\ mainResult[u] = "ok"
  /\ \E t, u \in Tasks : sweepResult[t] = "failed" /\ sweepResult[u] = "ok"

\* ---------------------------------------------------------------- C4
AllTransient(s) == \A i \in 1..Len(s) : s[i] = "transient"

BaseDelay(e) ==
  CASE e = "edge" -> EdgeRetryDelay
    [] e = "google" -> GoogleRetryDelay
    [] e = "azure" -> AzureRetryDelay

\* C4: a Provider that fails with a transient error k times (k < max_retries)
\* and then succeeds: the invocation ends completed after exactly k+1 calls,
\* with back-off sleeps base*2^0 .. base*2^(k-1) in that order and none after
\* the successful call.
C4_TransientThenSuccess ==
  (/\ rEngine \in {"edge", "google", "azure"}
   /\ AllTransient(script) /\ tail = "ok"
   /\ Len(script) < rMaxRetries) =>
      /\ rStatus # "failed"
      /\ Len(callLog) <= Len(script) + 1
      /\ rStatus = "completed" =>
            /\ Len(callLog) = Len(script) + 1
            /\ outFile = "audio"
            /\ Len(sleeps) = Len(script)
            /\ \A i \in 1..Len(sleeps) : sleeps[i] = BaseDelay(rEngine) * 2^(i - 1)

\* the spec's example: two rate-limit errors, then success, max_retries = 3
C4_Witness ==
  /\ rEngine = "google" /\ rMaxRetries = 3
  /\ script = <<"transient", "transient">> /\ tail = "ok"
  /\ rStatus = "completed"
  /\ Len(callLog) = 3

\* ---------------------------------------------------------------- C5
\* C5: when every Provider call fails with a transient error, exactly
\* max_retries calls are made within one invocation, never more, and the
\* failure then propagated carries the last underlying error.
C5_ExactlyMaxRetriesCalls ==
  (/\ rEngine \in {"edge", "google", "azure", "text_to_mp3"}
   /\ AllTransient(script) /\ tail = "transient") =>
      /\ Len(callLog) <= rMaxRetries
      /\ rStatus # "completed"
      /\ rStatus = "failed" =>
            Len(callLog) = rMaxRetries /\ rCarried = Len(callLog)

\* ---------------------------------------------------------------- C6
\* C6: a Provider call that fails with an error classified fatal is never
\* followed by another attempt: the failure is propagated at once.
C6_FatalNotRetried ==
  rEngine \in {"edge", "google", "azure", "text_to_mp3"} =>
    \A i \in 1..Len(callLog) :
      callLog[i] = "fatal" => i = Len(callLog) /\ rStatus = "failed"

\* ---------------------------------------------------------------- C7
\* C7: for every Provider, a synthesis invocation is never declared
\* successful while its output is missing or empty.
C7_NoSuccessWithoutOutput ==
  rStatus = "completed" => outFile \notin {"missing", "empty"}

\* ---------------------------------------------------------------- C8
RECURSIVE IsSubseq(_, _)
IsSubseq(a, b) ==
  IF a = <<>> THEN TRUE
  ELSE IF b = <<>> THEN FALSE
  ELSE IF Head(a) = Head(b) THEN IsSubseq(Tail(a), Tail(b))
  ELSE IsSubseq(a, Tail(b))

AlternateAttempts == SelectSeq(attempts, LAMBDA a : a.role = "fallback")

AttemptedNames(s) == [i \in 1..Len(s) |-> s[i].name]

\* the alternates are called in configured order, never one whose
\* is_available() is false, never passing over an available one, each only
\* after everything called before it has failed, and nothing after a success
AlternatesInOrder ==
  /\ \A i \in 1..Len(attempts) : availNow[attempts[i].name]
  /\ \A i \in 1..Len(attempts) : i < Len(attempts) => ~works[attempts[i].name]
  /\ \A i, j \in 1..Len(attempts) : i < j =>
        attempts[j].role = "fallback" /\ attempts[i].pos < attempts[j].pos
  /\ IsSubseq(AttemptedNames(AlternateAttempts), fbConfig)
  /\ \A i \in 1..Len(attempts) : \A q \in 1..(attempts[i].pos - 1) :
        availNow[fallbacks[q]] => \E j \in 1..Len(attempts) : attempts[j].pos = q
  /\ fbStatus = "success" => attempts # <<>> /\ works[attempts[Len(attempts)].name]

\* C8 (as stated): the primary is called first and the alternates only after
\* the primary has failed, in configured order, skipping the unavailable
\* ones; success is reported at the first Provider that succeeds.
C8_PrimaryFirst ==
  /\ attempts # <<>> => attempts[1].role = "primary"
  /\ AlternatesInOrder

\* C8 (amended): the primary is called first when its is_available() is true
\* and is skipped without a call when it is false; alternates are called only
\* after the primary has failed or been skipped, in configured order,
\* skipping the unavailable ones; success is reported at the first Provider
\* that succeeds and no Provider is called after it.
C8_PrimaryFirstIfAvailable ==
  /\ (attempts # <<>> /\ availNow[fbPrimary]) => attempts[1].role = "primary"
  /\ ~availNow[fbPrimary] => \A i \in 1..Len(attempts) : attempts[i].role = "fallback"
  /\ (attempts # <<>> /\ attempts[1].role = "fallback") => fbStage >= 1
  /\ AlternatesInOrder

\* primary failed, first alternate unavailable and skipped, second succeeded
C8_Witness ==
  /\ fbStatus = "success"
  /\ Len(fallbacks) = 2 /\ ~availNow[fallbacks[1]]
  /\ Len(attempts) = 2
  /\ attempts[1].role = "primary" /\ attempts[2].pos = 2

\* ---------------------------------------------------------------- C9
\* C9: within one invocation every Provider is attempted at most once, for
\* every configuration (the default alternates included); with a primary that
\* always fails and two alternates of which the second succeeds, the first
\* alternate is attempted exactly once and the second's success is the result.
C9_EachProviderAtMostOnce ==
  /\ \A i, j \in 1..Len(attempts) :
        i # j => attempts[i].name # attempts[j].name
  /\ (/\ fbStatus # "running" /\ Len(fallbacks) = 2
      /\ \A n \in FbNames : availNow[n]
      /\ ~works[fbPrimary] /\ ~works[fallbacks[1]] /\ works[fallbacks[2]]) =>
        /\ fbStatus = "success"
        /\ attempts[Len(attempts)].pos = 2
        /\ Cardinality({i \in 1..Len(attempts) : attempts[i].pos = 1}) = 1

\* ---------------------------------------------------------------- C10
\* C10 (as stated): when every attempted Provider fails, the error raised
\* lists the failure of each Provider attempted.
C10_AggregateListsAll ==
  fbStatus = "raised" => SeqToSet(fbRaised) = 1..Len(attempts)

\* C10 (amended): when every attempted Provider fails, the error raised
\* carries the failure of the last Provider attempted and no other (none
\* when no Provider was attempted).
C10_CarriesLastOnly ==
  fbStatus = "raised" =>
    fbRaised = IF attempts = <<>> THEN <<>> ELSE <<Len(attempts)>>

\* primary and an alternate were both attempted and both failed
C10_Witness ==
  /\ fbStatus = "raised"
  /\ Len(attempts) >= 2

\* the last result of task t: of the sweep if it was swept, else of the main pass
FinalOutcome(t) == IF sweepResult[t] # "none" THEN sweepResult[t] ELSE mainResult[t]

\* convert_batch has returned: no worker waits or runs, every permit is
\* back, every task has succeeded or failed, and on the engine path the
\* returned list names exactly the failed tasks
BatchFinished ==
  /\ phase = "done"
  /\ sem = concurrency
  /\ \A t \in Tasks : wstate[t] \notin {"waiting", "running"}
  /\ \A t \in Tasks : FinalOutcome(t) \in {"ok", "failed"}
  /\ ~legacy => SeqToSet(result.failed) = {t \in Tasks : FinalOutcome(t) = "failed"}

\* C18: when every Provider call and sleep returns, convert_batch reaches
\* its final state: every worker finished, every permit released, each task
\* succeeded or reported failed.
C18_Terminates == <>BatchFinished

\* a finished batch with more tasks than permits, one task failed, one not
C18_Witness ==
  /\ BatchFinished
  /\ concurrency < NumTasks
  /\ \E t \in Tasks : FinalOutcome(t) = "failed"
  /\ \E t \in Tasks : FinalOutcome(t) = "ok"

\* ------------------------------------------------------------ run.py claims

\* C11 (as stated): in every run, a chapter the mapping CSV showed completed
\* at startup with a non-empty audio file is not synthesised again and is
\* still completed, in memory and in the CSV the run writes last.
C11_CompletedSkipped ==
  jPc \notin {"idle", "off"} =>
    \A c \in jDone :
      /\ jOutcome[c] = "none"
      /\ jMap[c] = "completed"
      /\ jFinal => jLedger[c] = "completed"

\* C11 (amended): the same, for every run that is not given --recreate-audio.
C11_CompletedSkippedUnlessRecreate ==
  (jPc \notin {"idle", "off"} /\ ~jRecreate) =>
    \A c \in jDone :
      /\ jOutcome[c] = "none"
      /\ jMap[c] = "completed"
      /\ jFinal => jLedger[c] = "completed"

\* a second run without --recreate-audio, past its final write, whose window
\* holds an already completed chapter next to chapters it had to synthesise
C11_Witness ==
  /\ jRun = 2 /\ jPc = "savecfg" /\ ~jRecreate
  /\ \E c \in jDone : c \in Window(jLast, jBatch)
  /\ \E c \in jTasks : jOutcome[c] # "none"

\* C12: while the mapping CSV a run wrote is on disk unchanged, every row
\* with status completed has a non-empty audio file.  (The audio file of a
\* completed row does not change between a write and the next open, so this
\* is the state at the moment of writing.)
C12_CompletedHasFile ==
  jPc \in {"convert", "open2", "savecfg"} =>
    \A c \in Chapters : jLedger[c] = "completed" => NonEmpty(jFiles[c])

\* C13: once a run has written the mapping CSV for the last time, every
\* audio task whose synthesis failed has status failed in it.
C13_FailedRecorded ==
  jFinal => \A c \in jTasks : jOutcome[c] = "failed" => jLedger[c] = "failed"

\* C14: between runs the mapping CSV holds every index its last finished
\* write held, and during a run the entry of a chapter outside the run's
\* window keeps the status read at startup.  (An index occurs at most once
\* by construction: all_mappings is a dict keyed by the index.)
C14_IndicesKept ==
  /\ jPc = "idle" => \A c \in Chapters : jGood[c] # "absent" => jLedger[c] # "absent"
  /\ jPc \notin {"idle", "off"} =>
       \A c \in Chapters \ Window(jLast, jBatch) : jMap[c] = jLoaded[c]

\* C15: after an interrupted run the mapping CSV holds the complete content
\* of its last finished write (the previous content or the new one).
C15_RewriteAtomic ==
  (jPc = "idle" /\ jExit = "killed") => jLedger = jGood

ClaimedEdge(a, b) ==
  \/ a = b
  \/ a = "absent"
  \/ <<a, b>> \in {<<"queued", "in_progress">>, <<"in_progress", "completed">>,
                   <<"in_progress", "failed">>, <<"failed", "queued">>}

\* the status changes run.py makes
ActualEdge(a, b) ==
  \/ a = b
  \/ a = "absent"
  \/ <<a, b>> \in {<<"queued", "completed">>, <<"queued", "failed">>,
                   <<"completed", "queued">>, <<"failed", "queued">>}

\* C17 (as stated): every status change, from the status read at startup
\* through all_mappings to the end of the run, is queued -> in_progress,
\* in_progress -> completed | failed, or failed -> queued.
C17_ClaimedTransitions ==
  [][\A c \in Chapters :
       IF jPc = "idle"
       THEN jPc' = "open1" => ClaimedEdge(jLoaded'[c], jMap'[c])
       ELSE ClaimedEdge(jMap[c], jMap'[c])]_vars

\* C17 (amended): every status change is queued -> completed | failed, or
\* completed | failed -> queued when the task is selected at the start of a
\* run; a completed task is selected only under --recreate-audio or when its
\* audio file is missing or empty.
C17_ActualTransitions ==
  [][\A c \in Chapters :
       IF jPc = "idle"
       THEN jPc' = "open1" =>
              /\ ActualEdge(jLoaded'[c], jMap'[c])
              /\ (jLoaded'[c] = "completed" /\ jMap'[c] = "queued") =>
                   (jRecreate' \/ ~NonEmpty(jFiles[c]))
       ELSE ActualEdge(jMap[c], jMap'[c])]_vars

\* a completed task has been reset to queued at the start of a run and a
\* queued one has ended failed
C17_Witness ==
  /\ jPc = "open2"
  /\ \E c \in jTasks : jLoaded[c] = "completed"
  /\ \E c \in jTasks : jMap[c] = "failed"

\* C19: a finished run that had audio tasks and converted none exits with a
\* non-zero status and leaves the complete mapping CSV with every audio task
\* failed.
C19_ZeroSuccessReported ==
  (jPc = "idle" /\ jExit \in {"0", "1"} /\ jTasks # {} /\ jSucc = {}) =>
    /\ jExit # "0"
    /\ jLedger = jMap
    /\ \A c \in jTasks : jLedger[c] = "failed"

\* ----------------------------------------------------------- chunker claims

\* C20: every chunk GoogleCloudTTS._split_text_into_chunks returns is at
\* most max_bytes long in UTF-8.
C20_ChunksWithinMaxBytes ==
  chChunker = "google" => \A i \in 1..Len(chChunks) : chChunks[i].b <= chMaxBytes

\* C21: every chunk a chunker returns holds at least one word, and the list
\* of chunks is not empty.
C21_ChunksNotBlank ==
  chChunker \in {"google", "edge"} =>
    /\ Len(chChunks) >= 1
    /\ \A i \in 1..Len(chChunks) : chChunks[i].c > 0 /\ chChunks[i].ids # <<>>

\* a text split in at least two chunks
C21_Witness ==
  chChunker = "google" /\ Len(chChunks) >= 2

\* the positions of the words of the chunks, read in order
RECURSIVE WordsRead(_)
WordsRead(chunks) ==
  IF chunks = <<>> THEN <<>> ELSE Head(chunks).ids \o WordsRead(Tail(chunks))

\* the punctuation marks of the text found in the chunks
RECURSIVE MarksRead(_)
MarksRead(chunks) ==
  IF chunks = <<>> THEN 0 ELSE Head(chunks).m + MarksRead(Tail(chunks))

\* C23: the words read off the chunks in order are the words of the text in
\* order, and every punctuation mark of the text is in a chunk (only
\* whitespace and appended periods differ).
C23_NoContentLost ==
  chChunker \in {"google", "edge"} =>
    /\ WordsRead(chChunks) = [i \in 1..Len(chText) |-> i]
    /\ MarksRead(chChunks) = Cardinality({i \in 1..Len(chText) : chText[i].p # ""})

\* C24: a text without punctuation that is longer than max_bytes is split
\* by GoogleCloudTTS in at least size/max_bytes chunks, each of at most
\* max_bytes bytes, each ending with an appended period.
C24_NoPunctuationSplit ==
  (/\ chChunker = "google"
   /\ \A i \in 1..Len(chText) : chText[i].p = ""
   /\ StrM(Indexed(chText)).b > chMaxBytes) =>
    /\ Len(chChunks) * chMaxBytes >= StrM(Indexed(chText)).b
    /\ \A i \in 1..Len(chChunks) : chChunks[i].b <= chMaxBytes /\ chChunks[i].d

\* C22: a task whose text is blank fails without a Provider call and is
\* never tried again: its worker does not run in the retry sweep, and on the
\* legacy path no attempt (a Communicate call) is made for it.
C22_EmptyInputFatal ==
  \A t \in emptyText :
    /\ sweepRuns[t] = 0
    /\ attempt[t] = 0
    /\ ~(legacy /\ mainRuns[t] > 0)

\* C27: no step of convert_batch writes a field of the shared engine.
C27_EngineReadOnly ==
  [][engineVoice' = engineVoice]_vars

\* every Provider call made so far succeeded
AllCallsSucceeded ==
  \A t \in Tasks :
    mainResult[t] # "failed" /\ sweepResult[t] # "failed" /\ attempt[t] = 0

C28_DeletedRowResynthesized ==
  jRun > 0 => jForced \subseteq jTasks

\* ------------------------------------------------- multi-chunk claims

\* C25: when the synthesis of a multi-chunk text has ended, whichever way,
\* no intermediate chunk file is left on disk.
C25_NoChunkFileLeft ==
  mPc = "end" => \A i \in PartFiles : partFile[i] = "missing"

\* C26: when every chunk was synthesised and ffmpeg is absent or its run
\* fails, the synthesis ends successful, the output file holds the first
\* chunk's audio and the warning was printed, for each engine.
C26_DegradedConcatenation ==
  (/\ mPc = "end"
   /\ ffmpeg # "works"
   /\ mI = mNumChunks + 1 /\ failed_chunks = {}) =>
    /\ mStatus = "success"
    /\ mOutput = "chunk"
    /\ mWarned

\* ------------------------------------------------------ dry-run claims

\* C30: a dry-run call of convert, or of convert_batch on a backend that
\* has batch synthesis, on an input file with text returns without raising,
\* makes no Provider call and writes no output file, whether the backend's
\* library is installed or not.
C30_DryRunSilent ==
  (/\ dDryRun /\ dStatus \in {"returned", "raised"}
   /\ ~dBlank
   /\ dCall = "convert_batch" => dBackend \in EngineBackends) =>
    /\ dStatus = "returned"
    /\ ~dCalled
    /\ dOutput = "missing"

\* ------------------------------------------------------ fetcher claims

\* the requests made on candidate c, in order
RequestsOn(c) == SelectSeq(fRequests, LAMBDA r : r.cand = c)

SleepsOn(c) == SelectSeq(fSleeps, LAMBDA z : z.cand = c)

\* the number of the attempt on its candidate that request i was
AttemptOf(i) == Cardinality({j \in 1..i : fRequests[j].cand = fRequests[i].cand})

RECURSIVE Pow2(_)
Pow2(n) == IF n = 0 THEN 1 ELSE 2 * Pow2(n - 1)

\* C31: a candidate gets at most max_attempts requests; a 5xx answer is
\* followed by a request on the same candidate while attempts remain; the
\* k-th wait on a candidate is backoff_seconds * 2^(k-1); and the body
\* returned is that of the first successful response, which ends the call.
C31_RetrySameCandidate ==
  /\ \A c \in 1..MaxCands :
       /\ Len(RequestsOn(c)) <= fMaxAttempts
       /\ \A k \in 1..Len(SleepsOn(c)) : SleepsOn(c)[k].wait = Pow2(k - 1)
  /\ \A i \in 1..Len(fRequests) :
       (fRequests[i].resp = "5xx" /\ AttemptOf(i) < fMaxAttempts) =>
         /\ Len(SleepsOn(fRequests[i].cand)) >= AttemptOf(i)
         /\ IF i < Len(fRequests)
              THEN fRequests[i + 1].cand = fRequests[i].cand
              ELSE fStatus = "running" /\ fCand = fRequests[i].cand
  /\ \A i \in 1..Len(fRequests) :
       fRequests[i].resp = "200" =>
         /\ i = Len(fRequests)
         /\ fStatus = "returned" /\ fBody = i

\* two 5xx answers, then the third attempt on the same candidate succeeds
C31_Witness ==
  /\ fStatus = "returned" /\ fBody = 3
  /\ fRequests[1].resp = "5xx" /\ fRequests[2].resp = "5xx"
  /\ fRequests[3].cand = fRequests[1].cand
  /\ Len(fSleeps) = 2

\* C32: a 404 is the last request on its candidate and the next candidate is
\* tried; no request follows a successful response (one request in all when
\* the first succeeds); when no candidate succeeded the call raises the
\* error of the last request made.
C32_NotFoundDefinitive ==
  /\ \A i \in 1..Len(fRequests) :
       fRequests[i].resp = "404" =>
         /\ \A j \in (i + 1)..Len(fRequests) : fRequests[j].cand > fRequests[i].cand
         /\ (fStatus = "running" /\ i = Len(fRequests)) => fCand = fRequests[i].cand + 1
  /\ fStatus = "returned" =>
       /\ fRequests[Len(fRequests)].resp = "200"
       /\ \A i \in 1..(Len(fRequests) - 1) : fRequests[i].resp # "200"
  /\ fStatus = "raised" =>
       /\ \A i \in 1..Len(fRequests) : fRequests[i].resp # "200"
       /\ fRaised = Len(fRequests) /\ fRaised > 0

\* the first candidate answered 404 and the second one succeeded at once
C32_Witness ==
  /\ fStatus = "returned" /\ Len(fRequests) = 2
  /\ fRequests[1] = [cand |-> 1, resp |-> "404"]
  /\ fRequests[2] = [cand |-> 2, resp |-> "200"]

\* a new invocation of run.py begins
RunStarts == jRun' = jRun + 1

\* C33: a task that a run left with status failed, and without an audio
\* file, is among the tasks the next run selects for synthesis, whatever
\* the other tasks of its run did
C33_FailedSelectedAgain ==
  [][RunStarts =>
       \A c \in Chapters :
         (jLedger[c] = "failed" /\ jFiles[c] = "missing") => c \in jTasks']_vars

\* C35: a task whose failed synthesis left a partly written output file is
\* not written completed by the final rewrite of its run, and a later run
\* whose window holds it selects it again
C35_PartialNotCompleted ==
  [][/\ \A c \in jTasks' :
          (jFinal' /\ jOutcome'[c] = "failed" /\ jFiles'[c] = "partial")
            => jLedger'[c] # "completed"
     /\ RunStarts =>
          \A c \in Window(jLast, jBatch) :
            jFiles[c] = "partial" => c \in jTasks']_vars

\* the tasks of the current run whose synthesis produced audio
Produced == {c \in jTasks : jOutcome[c] = "ok" /\ jFiles[c] = "audio"}

\* C37: last_downloaded_chapter never decreases, changes only in a run
\* that produced the audio of at least one task, and then becomes the
\* largest index whose audio the run produced
C37_MarkerMonotone ==
  [][/\ jLast' >= jLast
     /\ jLast' # jLast => (Produced # {} /\ jLast' = MaxOf(Produced))]_vars

\* C38: a run started with --dry-run leaves last_downloaded_chapter and the
\* status of every row of the mapping CSV as they were before it
C38_DryRunChangesNothing ==
  [][jDryRun' =>
       /\ jLast' = jLast
       /\ (jPc' = "idle" /\ jExit' = "0" /\ jTasks' # {}) => jLedger' = jLoaded']_vars

\* C34: the synthesis of a multi-chunk text ends successful only when no
\* chunk was given up after its retries
C34_SuccessNeedsEveryChunk ==
  mStatus = "success" => failed_chunks = {}

\* C36: when the tasks carry voice overrides, every Provider call made
\* for a task, the calls for later chunks and retries included, uses the
\* voice of that task
C36_OwnVoicePerCall ==
  voice_arg => \A t \in Tasks : callVoice[t] \in {-1, t}

\* C39: when no word of the text is longer than max_sentence_length, every
\* sentence or fragment inside the chunks returned, counted with its mark
\* and with an inserted period, has at most max_sentence_length characters
C39_FragmentsWithinLimit ==
  (/\ chChunker = "google"
   /\ \A i \in 1..Len(chText) : chText[i].c <= chMaxSentence) =>
    \A l \in GoogleFragments(chText, chMaxBytes, chMaxSentence) : l <= chMaxSentence

====
